---------------------------- MODULE Spec2Model ----------------------------
(***************************************************************************)
(* Verification model of the statistical prediction engine                 *)
(* (server/models/elo-predictions.ts), of the Poisson odds model           *)
(* (server/models/poisson-odds.ts), of the elo_ratings persistence         *)
(* operations (server/football-db.ts), of the ingestion fallback and cache *)
(* strategies, of the rate-limiting request interceptor of                 *)
(* FootballDataOrgClient and of the worker scheduler.                      *)
(*                                                                         *)
(* Numbers.  The program computes in IEEE doubles.  The model computes in  *)
(* fixed point: a rating, an expected score and an actual score are        *)
(* integers counting units of 1/Scale (a rating of 1500 is 1500 * Scale,   *)
(* a score of 0.5 is Scale \div 2).  K-factors are whole numbers, so       *)
(* currentRating + kFactor * (actualScore - expectedScore) is exact in     *)
(* these units; the only rounding is in Math.pow and in the division of    *)
(* calculateExpectedScore, each to the nearest unit.  Expected goals,      *)
(* probabilities and odds are counted in the same units, goals and matches *)
(* are whole numbers, and every product and quotient is rounded to the     *)
(* nearest unit; expected goals stay below 10, where e^-lambda is at least *)
(* half a unit.                                                            *)
(***************************************************************************)
EXTENDS Integers, Sequences, FiniteSets, TLC

VARIABLES
    ratings,    \* in-memory rating of every team, fed from one update to the next
    hist,       \* the log of a run, oldest first: matches applied to `ratings`,
                \* calls of injected functions, requests sent
    call,       \* one invocation of an exported function: its arguments, the
                \* await it is suspended at, and its result
    table,      \* the state that outlives a call: the elo_ratings table
                \* (team -> row, or NoRow), or the fields of the client object
    procs,      \* the concurrent invocations: position and local variables
    clock       \* the wall clock new Date() reads, in milliseconds

vars == <<ratings, hist, call, table, procs, clock>>

(***************************************************************************)
(* Fixed-point arithmetic                                                  *)
(***************************************************************************)
Scale == 10000

\* a / b to the nearest unit (a >= 0, b > 0)
RoundDiv(a, b) == (2 * a + b) \div (2 * b)

Max(a, b) == IF a >= b THEN a ELSE b
Min(a, b) == IF a <= b THEN a ELSE b
Abs(a) == IF a >= 0 THEN a ELSE -a

\* 10^(a/4), 10^(b/40), 10^(c/400) in units of 1/Scale
Pow10Quarters == <<10000, 17783, 31623, 56234>>
Pow10Fortieths == <<10000, 10593, 11220, 11885, 12589, 13335, 14125, 14962, 15849, 16788>>
Pow10FourHundredths == <<10000, 10058, 10116, 10174, 10233, 10292, 10351, 10411, 10471, 10532>>

\* 10^q for the whole part of the exponent
RECURSIVE TenTo(_)
TenTo(q) == IF q = 0 THEN 1 ELSE 10 * TenTo(q - 1)

\* 10^(n / (400 * Scale)) in units of 1/Scale, for n >= 0.  n counts rating
\* units, so n \div Scale is a number of whole rating points: its hundreds,
\* tens and ones select the table entries, and the remaining fraction of a
\* point enters by 10^x ~ 1 + x ln 10  (ln 10 / 400 = 0.0057565).
Pow10Pos(n) ==
    LET points == n \div Scale
        frac   == n % Scale
        q      == points \div 400
        r      == points % 400
        a      == Pow10Quarters[(r \div 100) + 1]
        b      == Pow10Fortieths[((r % 100) \div 10) + 1]
        c      == Pow10FourHundredths[(r % 10) + 1]
        ab     == RoundDiv(a * b, Scale)
        abc    == RoundDiv(ab * c, Scale)
        fine   == Scale + RoundDiv(frac * 57565, 10000000)
    IN  RoundDiv(abc * fine, Scale) * TenTo(q)

\* Math.pow(10, n / (400 * Scale)) in units of 1/Scale
MathPow10(n) ==
    IF n >= 0 THEN Pow10Pos(n) ELSE RoundDiv(Scale * Scale, Pow10Pos(-n))

(***************************************************************************)
(* JavaScript numbers that are not rating arithmetic: non-negative numbers *)
(* in units of 1/Scale, and the two non-finite values a division by zero   *)
(* yields, which the operations that follow carry on.                      *)
(***************************************************************************)
NaN == -1
Infinity == -2

IsFinite(x) == x # NaN /\ x # Infinity

\* a * b of two non-negative numbers, term by term on the integer and the
\* fractional part of each so that no intermediate product leaves 32 bits
Mul(a, b) ==
    LET ah == a \div Scale
        al == a % Scale
        bh == b \div Scale
        bl == b % Scale
    IN  ah * bh * Scale + ah * bl + al * bh + RoundDiv(al * bl, Scale)

\* a * b of JavaScript numbers: NaN stays NaN, Infinity * 0 is NaN
JMul(a, b) ==
    IF a = NaN \/ b = NaN THEN NaN
    ELSE IF a = Infinity \/ b = Infinity
         THEN (IF a = 0 \/ b = 0 THEN NaN ELSE Infinity)
    ELSE Mul(a, b)

\* a / b of JavaScript numbers given in the same unit, the quotient in units
\* of 1/Scale: the integer part, then the fraction two decimal places at a
\* time
JDiv(a, b) ==
    IF a = NaN \/ b = NaN THEN NaN
    ELSE IF b = 0 THEN (IF a = 0 THEN NaN ELSE Infinity)
    ELSE IF a = Infinity THEN Infinity
    ELSE LET hundredths == ((a % b) * 100) \div b
             rest == ((a % b) * 100) % b
         IN  (a \div b) * Scale + hundredths * (Scale \div 100)
                 + RoundDiv(rest * (Scale \div 100), b)

\* goals / matches of two counts
CountRatio(goals, matches) ==
    IF matches = 0 THEN (IF goals = 0 THEN NaN ELSE Infinity)
    ELSE RoundDiv(goals * Scale, matches)

\* Math.min(a, b) and Math.max(a, b) with a finite
JMin(a, b) == IF b = NaN THEN NaN ELSE IF b = Infinity THEN a ELSE Min(a, b)
JMax(a, b) == IF b = NaN THEN NaN ELSE IF b = Infinity THEN Infinity ELSE Max(a, b)

(***************************************************************************)
(* server/models/elo-predictions.ts                                        *)
(***************************************************************************)
DEFAULT_ELO_CONFIG ==
    [ initialRating |-> 1500 * Scale,
      kFactor       |-> 32,
      homeAdvantage |-> 100 * Scale,
      minRating     |-> 1000 * Scale,
      maxRating     |-> 2500 * Scale ]

\* An optional argument is a sequence of length 0 (omitted) or 1 (passed).
Undefined == << >>
Some(x) == <<x>>

\* variant: the expectation does not look at the ratings
calculateExpectedScore_ignoresRatings(ratingA, ratingB, isHomeTeam) ==
    RoundDiv(Scale * Scale, Scale + MathPow10(0))

\* variant: the home-field bonus is left out of the expectation
calculateExpectedScore_noHomeBonus(ratingA, ratingB, isHomeTeam) ==
    RoundDiv(Scale * Scale, Scale + MathPow10(ratingB - ratingA))

\* 1 / (1 + 10^((ratingB - adjustedRatingA) / 400))
calculateExpectedScore(ratingA, ratingB, isHomeTeam) ==
    LET homeBonus       == IF isHomeTeam THEN DEFAULT_ELO_CONFIG.homeAdvantage ELSE 0
        adjustedRatingA == ratingA + homeBonus
        exponent400     == ratingB - adjustedRatingA
    IN  RoundDiv(Scale * Scale, Scale + MathPow10(exponent400))

\* variant: the result is not clamped to [minRating, maxRating]
updateELORating_noClamp(currentRating, expectedScore, actualScore, kFactor) ==
    LET k == IF kFactor = Undefined THEN DEFAULT_ELO_CONFIG.kFactor ELSE kFactor[1]
    IN  currentRating + k * (actualScore - expectedScore)

\* variant: the sign of the correction is reversed
updateELORating_signFlipped(currentRating, expectedScore, actualScore, kFactor) ==
    LET k         == IF kFactor = Undefined THEN DEFAULT_ELO_CONFIG.kFactor ELSE kFactor[1]
        newRating == currentRating + k * (expectedScore - actualScore)
    IN  Max(DEFAULT_ELO_CONFIG.minRating, Min(DEFAULT_ELO_CONFIG.maxRating, newRating))

\* the default parameter value kFactor = DEFAULT_ELO_CONFIG.kFactor
updateELORating(currentRating, expectedScore, actualScore, kFactor) ==
    LET k         == IF kFactor = Undefined THEN DEFAULT_ELO_CONFIG.kFactor ELSE kFactor[1]
        newRating == currentRating + k * (actualScore - expectedScore)
    IN  Max(DEFAULT_ELO_CONFIG.minRating, Min(DEFAULT_ELO_CONFIG.maxRating, newRating))

\* variant: a level score counts as a home win
getActualScores_homeWinsTies(result) ==
    IF result.homeGoals >= result.awayGoals
    THEN [home |-> Scale, away |-> 0]
    ELSE [home |-> 0, away |-> Scale]

getActualScores(result) ==
    IF result.homeGoals > result.awayGoals
    THEN [home |-> Scale, away |-> 0]
    ELSE IF result.homeGoals < result.awayGoals
         THEN [home |-> 0, away |-> Scale]
         ELSE [home |-> Scale \div 2, away |-> Scale \div 2]

\* variant: the kFactor argument is not handed on for the away team
updateMatchRatings_awayDefaultK(homeRating, awayRating, result, kFactor) ==
    LET homeExpected  == calculateExpectedScore(homeRating, awayRating, TRUE)
        awayExpected  == calculateExpectedScore(awayRating, homeRating, FALSE)
        actualScores  == getActualScores(result)
        newHomeRating == updateELORating(homeRating, homeExpected, actualScores.home, kFactor)
        newAwayRating == updateELORating(awayRating, awayExpected, actualScores.away, Undefined)
    IN  [homeRating |-> newHomeRating, awayRating |-> newAwayRating]

updateMatchRatings(homeRating, awayRating, result, kFactor) ==
    LET homeExpected  == calculateExpectedScore(homeRating, awayRating, TRUE)
        awayExpected  == calculateExpectedScore(awayRating, homeRating, FALSE)
        actualScores  == getActualScores(result)
        newHomeRating == updateELORating(homeRating, homeExpected, actualScores.home, kFactor)
        newAwayRating == updateELORating(awayRating, awayExpected, actualScores.away, kFactor)
    IN  [homeRating |-> newHomeRating, awayRating |-> newAwayRating]

\* variant: a new record is built even when one is supplied
getOrInitializeRating_alwaysFresh(existingRating, teamId) ==
    [ teamId        |-> teamId,
      rating        |-> DEFAULT_ELO_CONFIG.initialRating,
      matchesPlayed |-> 0,
      lastUpdated   |-> clock ]

\* existingRating is Undefined or Some(record); new Date() is the reading
\* of the wall clock at the moment of the call
getOrInitializeRating(existingRating, teamId) ==
    IF existingRating # Undefined
    THEN existingRating[1]
    ELSE [ teamId        |-> teamId,
           rating        |-> DEFAULT_ELO_CONFIG.initialRating,
           matchesPlayed |-> 0,
           lastUpdated   |-> clock ]

\* variant: the draw probability is not clamped to [0.15, 0.35]
calculateWinProbabilities_drawNotClamped(homeRating, awayRating) ==
    LET homeExpected == calculateExpectedScore(homeRating, awayRating, TRUE)
        awayExpected == Scale - homeExpected
        ratingDiff   == Abs(homeRating - awayRating)
        drawProb     == (30 * Scale) \div 100 - RoundDiv(ratingDiff, 1000)
        homeWinProb  == RoundDiv(homeExpected * (Scale - drawProb), Scale \div 100)
        awayWinProb  == RoundDiv(awayExpected * (Scale - drawProb), Scale \div 100)
        total        == homeWinProb + drawProb * 100 + awayWinProb
    IN  [ home |-> JDiv(homeWinProb, total),
          draw |-> JDiv(drawProb * 100, total),
          away |-> JDiv(awayWinProb, total) ]

\* the two products, and with them the total, are in units of
\* 1/(100 * Scale)
calculateWinProbabilities(homeRating, awayRating) ==
    LET homeExpected == calculateExpectedScore(homeRating, awayRating, TRUE)
        awayExpected == Scale - homeExpected
        ratingDiff   == Abs(homeRating - awayRating)
        drawProb     == Max((15 * Scale) \div 100,
                            Min((35 * Scale) \div 100,
                                (30 * Scale) \div 100 - RoundDiv(ratingDiff, 1000)))
        homeWinProb  == RoundDiv(homeExpected * (Scale - drawProb), Scale \div 100)
        awayWinProb  == RoundDiv(awayExpected * (Scale - drawProb), Scale \div 100)
        total        == homeWinProb + drawProb * 100 + awayWinProb
    IN  [ home |-> JDiv(homeWinProb, total),
          draw |-> JDiv(drawProb * 100, total),
          away |-> JDiv(awayWinProb, total) ]

\* variant: the default league average is 2.5 goals
predictGoals_average25(homeRating, awayRating, leagueAverageArg) ==
    LET leagueAverage  == IF leagueAverageArg = Undefined
                          THEN (25 * Scale) \div 10 ELSE leagueAverageArg[1]
        ratingDiff     == homeRating - awayRating
        baseGoals      == RoundDiv(leagueAverage, 2)
        homeAdjustment == RoundDiv(RoundDiv(ratingDiff, 200) * 5, 10)
        awayAdjustment == -homeAdjustment
    IN  [ home |-> Max(Scale \div 2, Min(4 * Scale, baseGoals + homeAdjustment)),
          away |-> Max(Scale \div 2, Min(4 * Scale, baseGoals + awayAdjustment)) ]

\* variant: the goals are not clamped to [0.5, 4.0]
predictGoals_noClamp(homeRating, awayRating, leagueAverageArg) ==
    LET leagueAverage  == IF leagueAverageArg = Undefined
                          THEN (27 * Scale) \div 10 ELSE leagueAverageArg[1]
        ratingDiff     == homeRating - awayRating
        baseGoals      == RoundDiv(leagueAverage, 2)
        homeAdjustment == RoundDiv(RoundDiv(ratingDiff, 200) * 5, 10)
        awayAdjustment == -homeAdjustment
    IN  [ home |-> baseGoals + homeAdjustment,
          away |-> baseGoals + awayAdjustment ]

\* leagueAverageArg is Undefined (the default 2.7 applies) or Some(average);
\* ratingDiff / 200 of ratings on a grid of whole points is exact in units
\* of 1/Scale, and awayAdjustment is the exact negation of homeAdjustment
predictGoals(homeRating, awayRating, leagueAverageArg) ==
    LET leagueAverage  == IF leagueAverageArg = Undefined
                          THEN (27 * Scale) \div 10 ELSE leagueAverageArg[1]
        ratingDiff     == homeRating - awayRating
        baseGoals      == RoundDiv(leagueAverage, 2)
        homeAdjustment == RoundDiv(RoundDiv(ratingDiff, 200) * 5, 10)
        awayAdjustment == -homeAdjustment
    IN  [ home |-> Max(Scale \div 2, Min(4 * Scale, baseGoals + homeAdjustment)),
          away |-> Max(Scale \div 2, Min(4 * Scale, baseGoals + awayAdjustment)) ]

\* the JavaScript null of winner.id and under_over; a value that is present
\* is Some(value)
Null == << >>

\* x.toFixed(digits) of a non-negative x, as a count of 10^-digits
ToFixed(x, digits) == RoundDiv(x, Scale \div TenTo(digits))

\* (p * 100).toFixed(0) + "%": the whole number in front of the sign
Percent(p) == RoundDiv(p * 100, Scale)

\* the winner, advice and markets generatePrediction derives from the
\* probabilities and the goals; homeFirst(p) and awayFirst(p) are its two
\* comparisons
predictionOf(probabilities, goals, homeTeamId, homeTeamName, awayTeamId, awayTeamName, homeFirst, awayFirst) ==
    LET outcome    == IF homeFirst THEN "home" ELSE IF awayFirst THEN "away" ELSE "draw"
        winner     == CASE outcome = "home" ->
                             [ id |-> Some(homeTeamId), name |-> homeTeamName,
                               comment |-> "Home team has higher ELO rating and home advantage" ]
                        [] outcome = "away" ->
                             [ id |-> Some(awayTeamId), name |-> awayTeamName,
                               comment |-> "Away team has significantly higher ELO rating" ]
                        [] outcome = "draw" ->
                             [ id |-> Null, name |-> "Draw",
                               comment |-> "Teams are closely matched based on ELO ratings" ]
        advice     == CASE outcome = "home" -> <<"Bet on ", homeTeamName, " to win">>
                        [] outcome = "away" -> <<"Bet on ", awayTeamName, " to win">>
                        [] outcome = "draw" -> <<"Consider draw or double chance bet">>
        totalGoals == goals.home + goals.away
    IN  [ winner      |-> winner,
          win_or_draw |-> probabilities.home + probabilities.draw > (6 * Scale) \div 10,
          under_over  |-> IF totalGoals > (25 * Scale) \div 10 THEN Some("Over 2.5")
                          ELSE IF totalGoals < (25 * Scale) \div 10 THEN Some("Under 2.5")
                          ELSE Null,
          goals       |-> [ home |-> ToFixed(goals.home, 1), away |-> ToFixed(goals.away, 1) ],
          advice      |-> advice,
          percent     |-> [ home |-> Percent(probabilities.home),
                            draw |-> Percent(probabilities.draw),
                            away |-> Percent(probabilities.away) ] ]

\* variant: a tie between the home and the away probability goes to the home
\* team
generatePrediction_homeWinsTies(homeTeamId, homeTeamName, homeRating, awayTeamId, awayTeamName, awayRating) ==
    LET probabilities == calculateWinProbabilities(homeRating, awayRating)
        goals         == predictGoals(homeRating, awayRating, Undefined)
    IN  predictionOf(probabilities, goals, homeTeamId, homeTeamName, awayTeamId, awayTeamName,
                     probabilities.home >= probabilities.away /\ probabilities.home > probabilities.draw,
                     probabilities.away > probabilities.home /\ probabilities.away > probabilities.draw)

\* variant: a team is selected only when it leads the other by more than
\* two points in a hundred
generatePrediction_drawWithinMargin(homeTeamId, homeTeamName, homeRating, awayTeamId, awayTeamName, awayRating) ==
    LET probabilities == calculateWinProbabilities(homeRating, awayRating)
        goals         == predictGoals(homeRating, awayRating, Undefined)
        margin        == (2 * Scale) \div 100
    IN  predictionOf(probabilities, goals, homeTeamId, homeTeamName, awayTeamId, awayTeamName,
                     probabilities.home > probabilities.away + margin /\ probabilities.home > probabilities.draw,
                     probabilities.away > probabilities.home + margin /\ probabilities.away > probabilities.draw)

generatePrediction(homeTeamId, homeTeamName, homeRating, awayTeamId, awayTeamName, awayRating) ==
    LET probabilities == calculateWinProbabilities(homeRating, awayRating)
        goals         == predictGoals(homeRating, awayRating, Undefined)
    IN  predictionOf(probabilities, goals, homeTeamId, homeTeamName, awayTeamId, awayTeamName,
                     probabilities.home > probabilities.away /\ probabilities.home > probabilities.draw,
                     probabilities.away > probabilities.home /\ probabilities.away > probabilities.draw)

\* variant: the bracket boundaries are inclusive
calculateKFactor_inclusive(matchesPlayed) ==
    IF matchesPlayed <= 10 THEN 40
    ELSE IF matchesPlayed <= 30 THEN 32
    ELSE 24

calculateKFactor(matchesPlayed) ==
    IF matchesPlayed < 10 THEN 40
    ELSE IF matchesPlayed < 30 THEN 32
    ELSE 24


(***************************************************************************)
(* server/football-db.ts: the elo_ratings table of one season.  The rating *)
(* column is decimal(7,2): a stored rating is a count of hundredths.       *)
(***************************************************************************)
NoRow == [present |-> FALSE]

\* rating.toString() written to a decimal(7,2) column
ToDecimal(rating) == RoundDiv(rating, Scale \div 100)

\* parseFloat(row.rating)
ParseFloat(stored) == stored * (Scale \div 100)

\* select ... where teamId = ... limit 1: the row, or undefined
getEloRating(tbl, teamId) ==
    IF tbl[teamId].present THEN Some(tbl[teamId]) ELSE Undefined

\* insert ... on duplicate key update: the row of (teamId, seasonId) is
\* created or overwritten with the values given
upsertEloRating(tbl, rating) ==
    [tbl EXCEPT ![rating.teamId] =
        [ present       |-> TRUE,
          teamId        |-> rating.teamId,
          rating        |-> ToDecimal(rating.rating),
          matchesPlayed |-> rating.matchesPlayed ]]

(***************************************************************************)
(* Input sets                                                              *)
(***************************************************************************)
MaxGoals == 2        \* goals per side in an input result
RatingStep == 100    \* distance, in rating points, between two input ratings
MaxPlayed == 40      \* largest matchesPlayed given to calculateKFactor

Results == [homeGoals : 0..MaxGoals, awayGoals : 0..MaxGoals]

\* ratings from minRating upward every RatingStep points, and maxRating
RatingInputs ==
    { DEFAULT_ELO_CONFIG.minRating + i * RatingStep * Scale :
          i \in 0..(1500 \div RatingStep) }
    \cup { DEFAULT_ELO_CONFIG.maxRating }

KFactorInputs == { Undefined } \cup { Some(k) : k \in {-40, 0, 1, 24, 32, 40, 4000} }

Teams == {1, 2, 3}

StoredStart == [t \in Teams |->
                   [ present |-> TRUE, teamId |-> t,
                     rating |-> ToDecimal(DEFAULT_ELO_CONFIG.initialRating),
                     matchesPlayed |-> 0 ]]

\* the table is empty, or holds a row for every team
StartTables == { [t \in Teams |-> NoRow], StoredStart }

\* the rating record an updater works on: the stored row with its rating
\* parsed, or the default record of a team without a row
LoadRating(tbl, teamId) ==
    LET row == getEloRating(tbl, teamId)
    IN  IF row # Undefined
        THEN [ teamId |-> teamId, rating |-> ParseFloat(row[1].rating),
               matchesPlayed |-> row[1].matchesPlayed ]
        ELSE getOrInitializeRating(Undefined, teamId)

\* rating records handed to getOrInitializeRating: none, or one of any team
ExistingRatings ==
    { Undefined } \cup
    { Some([teamId |-> t, rating |-> r, matchesPlayed |-> n, lastUpdated |-> 0]) :
        t \in Teams,
        r \in { DEFAULT_ELO_CONFIG.initialRating, 16324500 },
        n \in {0, 12} }

\* tables in which any subset of the teams has a stored row
PartTables ==
    { [t \in Teams |->
          IF t \in held
          THEN [ present |-> TRUE, teamId |-> t, rating |-> 163245,
                 matchesPlayed |-> 12 ]
          ELSE NoRow] : held \in SUBSET Teams }

\* league averages handed to predictGoals: none (2.7 applies), or one that
\* leaves the clamps idle, engages the lower one or engages the upper one
GoalAverageInputs ==
    { Undefined, Some(2 * Scale), Some((6 * Scale) \div 10), Some(9 * Scale) }

\* ratings handed to generatePrediction: the grid, and two ratings one point
\* either side of the tie with a 1500-rated home team
PredictionRatingInputs == RatingInputs \cup { 1599 * Scale, 1601 * Scale }

NoCall == [fn |-> "none"]

(***************************************************************************)
(* SpecCall: one invocation of an exported function on drawn arguments     *)
(***************************************************************************)
CallInputs ==
    [ fn : {"updateMatchRatings"}, homeRating : RatingInputs, awayRating : RatingInputs,
      result : Results, kFactor : KFactorInputs, returned : {Undefined} ]
    \cup [ fn : {"calculateKFactor"}, matchesPlayed : 0..MaxPlayed, returned : {Undefined} ]
    \cup [ fn : {"getActualScores"}, result : Results, returned : {Undefined} ]
    \cup [ fn : {"calculateWinProbabilities"}, homeRating : RatingInputs,
           awayRating : RatingInputs, returned : {Undefined} ]
    \cup [ fn : {"getOrInitializeRating"}, existingRating : ExistingRatings,
           teamId : Teams, returned : {Undefined} ]
    \cup [ fn : {"predictionsRatings"}, rows : PartTables,
           homeTeamId : Teams, awayTeamId : Teams, returned : {Undefined} ]
    \cup [ fn : {"predictGoals"}, homeRating : RatingInputs, awayRating : RatingInputs,
           leagueAverage : GoalAverageInputs, returned : {Undefined} ]
    \cup [ fn : {"generatePrediction"}, homeTeamId : {1}, homeTeamName : {"Home Team"},
           homeRating : PredictionRatingInputs, awayTeamId : {2},
           awayTeamName : {"Away Team"}, awayRating : PredictionRatingInputs,
           returned : {Undefined} ]

InitCall ==
    /\ call \in CallInputs
    /\ ratings = << >>
    /\ hist = << >>
    /\ table = << >>
    /\ procs = << >>
    /\ clock = 0

InvokeUpdateMatchRatings ==
    /\ call.fn = "updateMatchRatings"
    /\ call.returned = Undefined
    /\ call' = [call EXCEPT !.returned =
                   Some(updateMatchRatings(call.homeRating, call.awayRating,
                                           call.result, call.kFactor))]
    /\ UNCHANGED <<ratings, hist, table, procs, clock>>

InvokeCalculateKFactor ==
    /\ call.fn = "calculateKFactor"
    /\ call.returned = Undefined
    /\ call' = [call EXCEPT !.returned = Some(calculateKFactor(call.matchesPlayed))]
    /\ UNCHANGED <<ratings, hist, table, procs, clock>>

InvokeGetActualScores ==
    /\ call.fn = "getActualScores"
    /\ call.returned = Undefined
    /\ call' = [call EXCEPT !.returned = Some(getActualScores(call.result))]
    /\ UNCHANGED <<ratings, hist, table, procs, clock>>

InvokeGetOrInitializeRating ==
    /\ call.fn = "getOrInitializeRating"
    /\ call.returned = Undefined
    /\ call' = [call EXCEPT !.returned =
                   Some(getOrInitializeRating(call.existingRating, call.teamId))]
    /\ UNCHANGED <<ratings, hist, table, procs, clock>>

InvokeCalculateWinProbabilities ==
    /\ call.fn = "calculateWinProbabilities"
    /\ call.returned = Undefined
    /\ call' = [call EXCEPT !.returned =
                   Some(calculateWinProbabilities(call.homeRating, call.awayRating))]
    /\ UNCHANGED <<ratings, hist, table, procs, clock>>

\* the predictions handler up to the two rating records it predicts from
PredictionsRatings ==
    /\ call.fn = "predictionsRatings"
    /\ call.returned = Undefined
    /\ call' = [call EXCEPT !.returned =
                   Some([ homeRating |-> LoadRating(call.rows, call.homeTeamId),
                          awayRating |-> LoadRating(call.rows, call.awayTeamId) ])]
    /\ UNCHANGED <<ratings, hist, table, procs, clock>>

InvokePredictGoals ==
    /\ call.fn = "predictGoals"
    /\ call.returned = Undefined
    /\ call' = [call EXCEPT !.returned =
                   Some(predictGoals(call.homeRating, call.awayRating, call.leagueAverage))]
    /\ UNCHANGED <<ratings, hist, table, procs, clock>>

InvokeGeneratePrediction ==
    /\ call.fn = "generatePrediction"
    /\ call.returned = Undefined
    /\ call' = [call EXCEPT !.returned =
                   Some(generatePrediction(call.homeTeamId, call.homeTeamName, call.homeRating,
                                           call.awayTeamId, call.awayTeamName, call.awayRating))]
    /\ UNCHANGED <<ratings, hist, table, procs, clock>>

NextCall ==
    \/ InvokeUpdateMatchRatings
    \/ InvokeCalculateKFactor
    \/ InvokeGetActualScores
    \/ InvokeGetOrInitializeRating
    \/ PredictionsRatings
    \/ InvokeCalculateWinProbabilities
    \/ InvokePredictGoals
    \/ InvokeGeneratePrediction

SpecCall == InitCall /\ [][NextCall]_vars

\* the state after updateMatchRatings has returned
ReturnedUMR == call.fn = "updateMatchRatings" /\ call.returned # Undefined

\* the K-factor in force in the recorded updateMatchRatings call, per the
\* specification: the one passed, else 32
EffectiveK == IF call.kFactor = Undefined THEN 32 ELSE call.kFactor[1]

IsDraw(result) == result.homeGoals = result.awayGoals
IsHomeWin(result) == result.homeGoals > result.awayGoals
IsAwayWin(result) == result.homeGoals < result.awayGoals


\* the recorded call's arguments and what the function body computes from them
Out == call.returned[1]
HomeExpected == calculateExpectedScore(call.homeRating, call.awayRating, TRUE)
AwayExpected == calculateExpectedScore(call.awayRating, call.homeRating, FALSE)
Actual == getActualScores(call.result)
InRange(r) == DEFAULT_ELO_CONFIG.minRating <= r /\ r <= DEFAULT_ELO_CONFIG.maxRating
Clamp(r) == Max(1000 * Scale, Min(2500 * Scale, r))
EqualRatedDraw == ReturnedUMR /\ call.homeRating = call.awayRating /\ IsDraw(call.result)

(***************************************************************************)
(* Claims about one updateMatchRatings call (SpecCall)                     *)
(***************************************************************************)

\* C2 (as stated): whenever neither new rating is cut by the clamp, the sum
\* homeRating + awayRating is the same before and after updateMatchRatings.
C2_ZeroSumUnlessClamped ==
    ReturnedUMR =>
        LET rawHome == call.homeRating + EffectiveK * (Actual.home - HomeExpected)
            rawAway == call.awayRating + EffectiveK * (Actual.away - AwayExpected)
        IN  (InRange(rawHome) /\ InRange(rawAway)) =>
                Out.homeRating + Out.awayRating = call.homeRating + call.awayRating

C4_EqualDrawHomeDownAwayUp ==
    (EqualRatedDraw /\ EffectiveK > 0) =>
        /\ Out.homeRating < call.homeRating
        /\ Out.awayRating > call.awayRating

\* C5: for kFactor K >= 0 one call changes each rating by at most K rating
\* points, and never against the outcome: after a home win the home rating
\* does not decrease and the away rating does not increase; symmetrically
\* after an away win.
C5_BoundedTowardOutcome ==
    (ReturnedUMR /\ EffectiveK >= 0) =>
        /\ Abs(Out.homeRating - call.homeRating) <= EffectiveK * Scale
        /\ Abs(Out.awayRating - call.awayRating) <= EffectiveK * Scale
        /\ IsHomeWin(call.result) =>
               (Out.homeRating >= call.homeRating /\ Out.awayRating <= call.awayRating)
        /\ IsAwayWin(call.result) =>
               (Out.homeRating <= call.homeRating /\ Out.awayRating >= call.awayRating)

C5_Witness ==
    /\ ReturnedUMR
    /\ call.kFactor = Some(40)
    /\ IsHomeWin(call.result)
    /\ call.homeRating = 1600 * Scale
    /\ call.awayRating = 1400 * Scale
    /\ Out.homeRating > call.homeRating
    /\ Out.awayRating < call.awayRating

\* C6: calculateKFactor(n) is 40 for n < 10, 32 for 10 <= n < 30 and 24 for
\* n >= 30, hence non-increasing in n.
C6_KFactorSchedule ==
    (call.fn = "calculateKFactor" /\ call.returned # Undefined) =>
        LET n == call.matchesPlayed
        IN  /\ n < 10 => Out = 40
            /\ (10 <= n /\ n < 30) => Out = 32
            /\ n >= 30 => Out = 24
            /\ \A m \in 0..n : calculateKFactor(m) >= Out

C6_Witness ==
    /\ call.fn = "calculateKFactor"
    /\ call.returned = Some(24)
    /\ call.matchesPlayed = 30

\* C7: updateMatchRatings applies one and the same K-factor to both teams:
\* the kFactor passed, or 32 when it is omitted.
C7_SameKForBoth ==
    ReturnedUMR =>
        /\ Out.homeRating =
               Clamp(call.homeRating + EffectiveK * (Actual.home - HomeExpected))
        /\ Out.awayRating =
               Clamp(call.awayRating + EffectiveK * (Actual.away - AwayExpected))

C7_Witness ==
    /\ ReturnedUMR
    /\ call.kFactor = Undefined
    /\ IsAwayWin(call.result)
    /\ call.homeRating = 1500 * Scale
    /\ call.awayRating = 1500 * Scale
    /\ Out.awayRating = 1500 * Scale + 32 * (Scale \div 2)
    /\ Out.homeRating = 1500 * Scale - 32 * HomeExpected

\* C8: getActualScores returns {1,0} for a home win, {0,1} for an away win
\* and {0.5,0.5} for a level score; the two scores sum to 1 and depend only
\* on the sign of homeGoals - awayGoals, not on the margin.
C8_TernaryScores ==
    (call.fn = "getActualScores" /\ call.returned # Undefined) =>
        /\ IsHomeWin(call.result) => Out = [home |-> Scale, away |-> 0]
        /\ IsAwayWin(call.result) => Out = [home |-> 0, away |-> Scale]
        /\ IsDraw(call.result) => Out = [home |-> Scale \div 2, away |-> Scale \div 2]
        /\ Out.home + Out.away = Scale
        /\ \A other \in Results :
               ( /\ IsHomeWin(other) <=> IsHomeWin(call.result)
                 /\ IsAwayWin(other) <=> IsAwayWin(call.result) )
               => getActualScores(other) = Out

C8_Witness ==
    /\ call.fn = "getActualScores"
    /\ call.result = [homeGoals |-> 2, awayGoals |-> 0]
    /\ call.returned = Some([home |-> Scale, away |-> 0])


(***************************************************************************)
(* Claims about getOrInitializeRating (SpecCall)                           *)
(***************************************************************************)
\* the new record, stamped with the time of the call
FreshRecord(teamId) == [teamId |-> teamId, rating |-> 1500 * Scale, matchesPlayed |-> 0, lastUpdated |-> clock]

ReturnedGOIR == call.fn = "getOrInitializeRating" /\ call.returned # Undefined
ReturnedPR == call.fn = "predictionsRatings" /\ call.returned # Undefined

\* C11: getOrInitializeRating returns the record it is given, unchanged,
\* and without one a new record {teamId, rating 1500, matchesPlayed 0}; the
\* predictions handler works on exactly that new record for a team that has
\* no stored row.
C11_ExistingOrFresh ==
    /\ ReturnedGOIR =>
          IF call.existingRating # Undefined
          THEN Out = call.existingRating[1]
          ELSE Out = FreshRecord(call.teamId)
    /\ ReturnedPR =>
          /\ getEloRating(call.rows, call.homeTeamId) = Undefined
                => Out.homeRating = FreshRecord(call.homeTeamId)
          /\ getEloRating(call.rows, call.awayTeamId) = Undefined
                => Out.awayRating = FreshRecord(call.awayTeamId)

\* a record of another team, with a rating other than 1500, came back as given
C11_Witness ==
    /\ ReturnedGOIR
    /\ call.existingRating # Undefined
    /\ call.existingRating[1].teamId # call.teamId
    /\ call.existingRating[1].rating # 1500 * Scale
    /\ call.existingRating[1].matchesPlayed > 0
    /\ Out = call.existingRating[1]

(***************************************************************************)
(* Claims about calculateWinProbabilities (SpecCall)                       *)
(***************************************************************************)
ReturnedWP == call.fn = "calculateWinProbabilities" /\ call.returned # Undefined

\* clamp(0.30 - gap / 1000, 0.15, 0.35) for a rating gap in rating units
DrawOfGap(gap) ==
    Max((15 * Scale) \div 100,
        Min((35 * Scale) \div 100, (30 * Scale) \div 100 - RoundDiv(gap, 1000)))

\* C20: for two ratings (in [1000, 2500]) calculateWinProbabilities returns
\* home, draw and away that are each in (0, 1) and sum to 1; draw is
\* clamp(0.30 - |homeRating - awayRating| / 1000, 0.15, 0.35), so it lies in
\* [0.15, 0.35] and does not increase as the gap grows; home is
\* homeExpected * (1 - draw) and away is (1 - homeExpected) * (1 - draw), all
\* to the last digit kept.
C20_WinProbabilities ==
    ReturnedWP =>
        LET gap == Abs(call.homeRating - call.awayRating)
            homeExpected == calculateExpectedScore(call.homeRating, call.awayRating, TRUE)
        IN  /\ 0 < Out.home /\ Out.home < Scale
            /\ 0 < Out.draw /\ Out.draw < Scale
            /\ 0 < Out.away /\ Out.away < Scale
            /\ Abs(Out.home + Out.draw + Out.away - Scale) <= 1
            /\ Out.draw = DrawOfGap(gap)
            /\ (15 * Scale) \div 100 <= Out.draw /\ Out.draw <= (35 * Scale) \div 100
            /\ \A h \in RatingInputs : \A a \in RatingInputs :
                  Abs(h - a) >= gap => calculateWinProbabilities(h, a).draw <= Out.draw
            /\ Abs(Out.home - Mul(homeExpected, Scale - Out.draw)) <= 1
            /\ Abs(Out.away - Mul(Scale - homeExpected, Scale - Out.draw)) <= 1

\* the gap is wide enough for the floor 0.15 of the draw probability, and
\* the lower-rated home side keeps a chance
C20_Witness ==
    /\ ReturnedWP
    /\ call.homeRating < call.awayRating
    /\ (30 * Scale) \div 100 - RoundDiv(call.awayRating - call.homeRating, 1000)
           < (15 * Scale) \div 100
    /\ Out.draw = (15 * Scale) \div 100
    /\ 0 < Out.home /\ Out.home < Out.away

(***************************************************************************)
(* Claims about one predictGoals or generatePrediction call (SpecCall)     *)
(***************************************************************************)
ReturnedGP == call.fn = "generatePrediction" /\ call.returned # Undefined
ReturnedPG == call.fn = "predictGoals" /\ call.returned # Undefined

\* the probabilities and the goals of the recorded generatePrediction call
Probabilities == calculateWinProbabilities(call.homeRating, call.awayRating)
DefaultGoals == predictGoals(call.homeRating, call.awayRating, Undefined)

\* C21: generatePrediction selects the home team exactly when the home
\* probability is strictly greater than both the away and the draw
\* probability, the away team exactly when the away probability is strictly
\* greater than both others, and Draw in every other case, ties included;
\* winner.id is null exactly when the winner is Draw, and otherwise the id of
\* the selected team.
C21_WinnerSelection ==
    ReturnedGP =>
        LET p         == Probabilities
            homeFirst == p.home > p.away /\ p.home > p.draw
            awayFirst == p.away > p.home /\ p.away > p.draw
            w         == Out.winner
        IN  /\ homeFirst <=> (w.name = call.homeTeamName)
            /\ awayFirst <=> (w.name = call.awayTeamName)
            /\ (~homeFirst /\ ~awayFirst) <=> (w.name = "Draw")
            /\ (w.id = Null) <=> (w.name = "Draw")
            /\ homeFirst => w.id = Some(call.homeTeamId)
            /\ awayFirst => w.id = Some(call.awayTeamId)

\* a tie between the home and the away probability has returned Draw
C21_Witness ==
    /\ ReturnedGP
    /\ Probabilities.home = Probabilities.away
    /\ Probabilities.home > Probabilities.draw
    /\ Out.winner.name = "Draw"
    /\ Out.winner.id = Null

\* the league average in force in the recorded predictGoals call
GoalAverageOf == IF call.leagueAverage = Undefined
                 THEN (27 * Scale) \div 10 ELSE call.leagueAverage[1]

\* Math.max(0.5, Math.min(4.0, g))
ClampGoals(g) == Max(Scale \div 2, Min(4 * Scale, g))

\* C22: predictGoals returns home = clamp(leagueAverage / 2 + (homeRating -
\* awayRating) / 400, 0.5, 4.0) and away = clamp(leagueAverage / 2 -
\* (homeRating - awayRating) / 400, 0.5, 4.0); both lie in [0.5, 4.0], and
\* when neither clamp is active they sum to leagueAverage.
C22_PredictedGoals ==
    ReturnedPG =>
        LET half  == RoundDiv(GoalAverageOf, 2)
            shift == RoundDiv(call.homeRating - call.awayRating, 400)
        IN  /\ Out.home = ClampGoals(half + shift)
            /\ Out.away = ClampGoals(half - shift)
            /\ Scale \div 2 <= Out.home /\ Out.home <= 4 * Scale
            /\ Scale \div 2 <= Out.away /\ Out.away <= 4 * Scale
            /\ (Out.home = half + shift /\ Out.away = half - shift)
                   => Out.home + Out.away = GoalAverageOf

\* unequal ratings and a league average of the caller's, no clamp active
C22_Witness ==
    /\ ReturnedPG
    /\ call.leagueAverage = Some(2 * Scale)
    /\ call.homeRating > call.awayRating
    /\ Scale \div 2 < Out.away /\ Out.away < Out.home /\ Out.home < 4 * Scale
    /\ Out.home + Out.away = 2 * Scale

\* C28: generatePrediction returns under_over = "Over 2.5" for every pair of
\* ratings: with the default league average 2.7 the predicted total is at
\* least 2.7 whether or not a clamp is active, so "Under 2.5" and null are
\* never returned.
C28_AlwaysOver ==
    ReturnedGP =>
        /\ Out.under_over = Some("Over 2.5")
        /\ DefaultGoals.home + DefaultGoals.away >= (27 * Scale) \div 10

\* the away goals are clamped at 0.5 and the total is above 2.7
C28_Witness ==
    /\ ReturnedGP
    /\ DefaultGoals.away = Scale \div 2
    /\ DefaultGoals.home + DefaultGoals.away > (27 * Scale) \div 10
    /\ Out.under_over = Some("Over 2.5")

\* C29: generatePrediction selects Draw only when the home and the away
\* probability are exactly equal, which is when homeExpected is 0.5, that
\* is awayRating = homeRating + 100: the draw probability never exceeds 0.30
\* while the larger of the home and the away probability is at least 0.35.
C29_DrawOnlyOnExactTie ==
    ReturnedGP =>
        LET p == Probabilities
        IN  /\ (Out.winner.name = "Draw") <=> (p.home = p.away)
            /\ (p.home = p.away) <=> (HomeExpected = Scale \div 2)
            /\ (HomeExpected = Scale \div 2)
                   <=> (call.awayRating = call.homeRating + 100 * Scale)
            /\ p.draw <= (30 * Scale) \div 100
            /\ Max(p.home, p.away) >= (35 * Scale) \div 100

\* ratings one point short of the tie: the home team is selected, by less
\* than half a point in a hundred
C29_Witness ==
    /\ ReturnedGP
    /\ call.awayRating = call.homeRating + 99 * Scale
    /\ Probabilities.home - Probabilities.away < Scale \div 200
    /\ Out.winner.id = Some(call.homeTeamId)

(***************************************************************************)
(* Spec: a run of concluded matches, each updateMatchRatings call fed the  *)
(* ratings left by the previous one                                        *)
(***************************************************************************)
MaxMatches == 2      \* matches applied in one run

\* every team starts a run on the same rating: the floor, the initial
\* rating of a new team, or the ceiling
StartRatings ==
    { DEFAULT_ELO_CONFIG.minRating, DEFAULT_ELO_CONFIG.initialRating,
      DEFAULT_ELO_CONFIG.maxRating }

Outcomes ==
    { [homeGoals |-> 1, awayGoals |-> 0],
      [homeGoals |-> 1, awayGoals |-> 1],
      [homeGoals |-> 0, awayGoals |-> 1] }

SeqKFactors == { Undefined, Some(400), Some(-400) }

\* the fixtures of a run, <<home, away>>: every team meets every other, and
\* teams 1 and 2 meet at both venues
Fixtures == { <<1, 2>>, <<2, 1>>, <<1, 3>>, <<3, 2>> }

Matches ==
    { m \in [home : Teams, away : Teams, result : Outcomes, kFactor : SeqKFactors] :
          <<m.home, m.away>> \in Fixtures }

\* the ratings after match m, given the ratings rs before it
ApplyMatch(rs, m) ==
    LET out == updateMatchRatings(rs[m.home], rs[m.away], m.result, m.kFactor)
    IN  [rs EXCEPT ![m.home] = out.homeRating, ![m.away] = out.awayRating]

Init ==
    /\ \E r \in StartRatings : ratings = [t \in Teams |-> r]
    /\ hist = << >>
    /\ call = NoCall
    /\ table = << >>
    /\ procs = << >>
    /\ clock = 0

PlayMatch(m) ==
    /\ Len(hist) < MaxMatches
    /\ ratings' = ApplyMatch(ratings, m)
    /\ hist' = Append(hist, [match |-> m, before |-> ratings])
    /\ UNCHANGED <<call, table, procs, clock>>

Next == \E m \in Matches : PlayMatch(m)

Spec == Init /\ [][Next]_vars

\* C1: starting from ratings in [1000, 2500], after any sequence of
\* updateMatchRatings calls with any results and any kFactor, every rating
\* lies in [1000, 2500].
C1_RatingsStayInRange ==
    \A t \in DOMAIN ratings :
        1000 * Scale <= ratings[t] /\ ratings[t] <= 2500 * Scale

\* a second match whose home team was at the ceiling, won with K = 400 and
\* was cut back to the ceiling
C1_Witness ==
    /\ Len(hist) = 2
    /\ LET last == hist[2]
       IN  /\ IsHomeWin(last.match.result)
           /\ last.match.kFactor = Some(400)
           /\ last.before[last.match.home] = 2500 * Scale
           /\ last.before[last.match.away] < 2500 * Scale
           /\ ratings[last.match.home] = 2500 * Scale

SharedTeams(m1, m2) == {m1.home, m1.away} \cap {m2.home, m2.away}

\* C9: ELO updates are order-dependent: from the current ratings there are
\* two concluded matches sharing a team for which the two orders of
\* application leave that team on different ratings.
C9_OrderDependent ==
    (DOMAIN ratings = Teams) =>
        \E m1 \in Matches : \E m2 \in Matches : \E t \in SharedTeams(m1, m2) :
            ApplyMatch(ApplyMatch(ratings, m1), m2)[t]
                # ApplyMatch(ApplyMatch(ratings, m2), m1)[t]

\* two matches of one team were applied from the initial rating 1500 with
\* the default K-factor, and the other order would have left that team on
\* another rating
C9_Witness ==
    /\ Len(hist) = 2
    /\ LET m1    == hist[1].match
           m2    == hist[2].match
           start == hist[1].before
       IN  /\ m1.kFactor = Undefined /\ m2.kFactor = Undefined
           /\ \A t \in Teams : start[t] = 1500 * Scale
           /\ \E t \in SharedTeams(m1, m2) :
                  /\ InRange(ratings[t])
                  /\ ratings[t] # ApplyMatch(ApplyMatch(start, m2), m1)[t]


(***************************************************************************)
(* SpecConc: two rating updaters run concurrently, one per concluded       *)
(* match.  Each reads both teams' rows (getEloRating), computes            *)
(* updateMatchRatings on what it read and writes both rows back            *)
(* (upsertEloRating); every database call is one atomic step, and the      *)
(* steps of the two updaters interleave freely.                            *)
(***************************************************************************)
Procs == {1, 2}

DefaultKMatches == { m \in Matches : m.kFactor = Undefined }

InitConc ==
    /\ table \in StartTables
    /\ \E m1 \in DefaultKMatches : \E m2 \in DefaultKMatches :
          /\ <<m1.home, m1.away>> # <<m2.home, m2.away>>
          /\ procs = [p \in Procs |->
                        [ pc |-> "readHome", match |-> IF p = 1 THEN m1 ELSE m2,
                          home |-> Undefined, away |-> Undefined ]]
    /\ ratings = << >>
    /\ hist = << >>
    /\ call = NoCall
    /\ clock = 0

ReadHome(p) ==
    /\ procs[p].pc = "readHome"
    /\ procs' = [procs EXCEPT ![p].home = Some(LoadRating(table, procs[p].match.home)),
                              ![p].pc = "readAway"]
    /\ UNCHANGED <<ratings, hist, call, table, clock>>

ReadAway(p) ==
    /\ procs[p].pc = "readAway"
    /\ procs' = [procs EXCEPT ![p].away = Some(LoadRating(table, procs[p].match.away)),
                              ![p].pc = "writeHome"]
    /\ UNCHANGED <<ratings, hist, call, table, clock>>

\* the ratings an updater computes from the records it has read
Computed(proc) ==
    updateMatchRatings(proc.home[1].rating, proc.away[1].rating,
                       proc.match.result, proc.match.kFactor)

WriteHome(p) ==
    /\ procs[p].pc = "writeHome"
    /\ table' = upsertEloRating(table,
                    [ teamId        |-> procs[p].match.home,
                      rating        |-> Computed(procs[p]).homeRating,
                      matchesPlayed |-> procs[p].home[1].matchesPlayed + 1 ])
    /\ procs' = [procs EXCEPT ![p].pc = "writeAway"]
    /\ UNCHANGED <<ratings, hist, call, clock>>

WriteAway(p) ==
    /\ procs[p].pc = "writeAway"
    /\ table' = upsertEloRating(table,
                    [ teamId        |-> procs[p].match.away,
                      rating        |-> Computed(procs[p]).awayRating,
                      matchesPlayed |-> procs[p].away[1].matchesPlayed + 1 ])
    /\ procs' = [procs EXCEPT ![p].pc = "done"]
    /\ UNCHANGED <<ratings, hist, call, clock>>

NextConc ==
    \E p \in Procs :
        \/ ReadHome(p)
        \/ ReadAway(p)
        \/ WriteHome(p)
        \/ WriteAway(p)

SpecConc == InitConc /\ [][NextConc]_vars

\* the table after one updater has run alone, start to end, on match m
RunAlone(tbl, m) ==
    LET home == LoadRating(tbl, m.home)
        away == LoadRating(tbl, m.away)
        out  == updateMatchRatings(home.rating, away.rating, m.result, m.kFactor)
        t1   == upsertEloRating(tbl, [ teamId |-> m.home, rating |-> out.homeRating,
                                       matchesPlayed |-> home.matchesPlayed + 1 ])
    IN  upsertEloRating(t1, [ teamId |-> m.away, rating |-> out.awayRating,
                              matchesPlayed |-> away.matchesPlayed + 1 ])

\* both updaters have written both of their rows
BothDone == DOMAIN procs = Procs /\ \A p \in Procs : procs[p].pc = "done"

\* C10 (as stated): when two updaters of matches sharing a team run
\* concurrently, the row finally stored for the shared team is the one left
\* by running the two updates one after the other, in one order or the
\* other: no update is lost and none is applied twice.
C10_UpdatesSerialized ==
    BothDone =>
        \E start \in StartTables :
            LET m1 == procs[1].match
                m2 == procs[2].match
            IN  \A t \in SharedTeams(m1, m2) :
                    \/ table[t] = RunAlone(RunAlone(start, m1), m2)[t]
                    \/ table[t] = RunAlone(RunAlone(start, m2), m1)[t]

(***************************************************************************)
(* server/models/poisson-odds.ts.  Goal and match counts are integers;     *)
(* expected goals, league averages, probabilities and odds are numbers in  *)
(* units of 1/Scale.                                                       *)
(***************************************************************************)
\* the default value of the leagueAverage parameter
DefaultLeagueAverage ==
    [ goalsPerMatch |-> (27 * Scale) \div 10, homeAdvantage |-> (13 * Scale) \div 10 ]

\* a || b where a is an optional count: b when a is absent or is 0
OrElse(a, b) == IF a = Undefined \/ a[1] = 0 THEN b ELSE a[1]


\* variant: the low-data guard looks at the team's match count only
strengthModel_guardTeamOnly(matchesPlayed, goalsScored, opponentGoalsConceded, opponentMatchesPlayed, isHome, leagueAverage) ==
    IF matchesPlayed < 3
    THEN [ value    |-> RoundDiv(Mul(leagueAverage.goalsPerMatch,
                                    IF isHome THEN leagueAverage.homeAdvantage
                                              ELSE Scale), 2),
           divisors |-> << >> ]
    ELSE LET half == RoundDiv(leagueAverage.goalsPerMatch, 2)
             attackStrength == JDiv(CountRatio(goalsScored, matchesPlayed), half)
             defenseStrength ==
                 JDiv(CountRatio(opponentGoalsConceded, opponentMatchesPlayed), half)
             homeAdvantage == IF isHome THEN leagueAverage.homeAdvantage ELSE Scale
             expectedGoals ==
                 JMul(JMul(JMul(attackStrength, defenseStrength), half), homeAdvantage)
         IN  [ value    |-> JMax((2 * Scale) \div 10, JMin(5 * Scale, expectedGoals)),
               divisors |-> <<matchesPlayed, opponentMatchesPlayed>> ]

\* variant: the low-data value leaves the home advantage out
strengthModel_fallbackNoAdvantage(matchesPlayed, goalsScored, opponentGoalsConceded, opponentMatchesPlayed, isHome, leagueAverage) ==
    IF matchesPlayed < 3 \/ opponentMatchesPlayed < 3
    THEN [ value    |-> RoundDiv(leagueAverage.goalsPerMatch, 2),
           divisors |-> << >> ]
    ELSE LET half == RoundDiv(leagueAverage.goalsPerMatch, 2)
             attackStrength == JDiv(CountRatio(goalsScored, matchesPlayed), half)
             defenseStrength ==
                 JDiv(CountRatio(opponentGoalsConceded, opponentMatchesPlayed), half)
             homeAdvantage == IF isHome THEN leagueAverage.homeAdvantage ELSE Scale
             expectedGoals ==
                 JMul(JMul(JMul(attackStrength, defenseStrength), half), homeAdvantage)
         IN  [ value    |-> JMax((2 * Scale) \div 10, JMin(5 * Scale, expectedGoals)),
               divisors |-> <<matchesPlayed, opponentMatchesPlayed>> ]

\* lines 96-111 on the four figures selected from the two TeamStats: the
\* value returned, and the match counts the two ratios were divided by
\* (none on the low-data path)
strengthModel(matchesPlayed, goalsScored, opponentGoalsConceded, opponentMatchesPlayed, isHome, leagueAverage) ==
    IF matchesPlayed < 3 \/ opponentMatchesPlayed < 3
    THEN [ value    |-> RoundDiv(Mul(leagueAverage.goalsPerMatch,
                                    IF isHome THEN leagueAverage.homeAdvantage
                                              ELSE Scale), 2),
           divisors |-> << >> ]
    ELSE LET half == RoundDiv(leagueAverage.goalsPerMatch, 2)
             attackStrength == JDiv(CountRatio(goalsScored, matchesPlayed), half)
             defenseStrength ==
                 JDiv(CountRatio(opponentGoalsConceded, opponentMatchesPlayed), half)
             homeAdvantage == IF isHome THEN leagueAverage.homeAdvantage ELSE Scale
             expectedGoals ==
                 JMul(JMul(JMul(attackStrength, defenseStrength), half), homeAdvantage)
         IN  [ value    |-> JMax((2 * Scale) \div 10, JMin(5 * Scale, expectedGoals)),
               divisors |-> <<matchesPlayed, opponentMatchesPlayed>> ]

\* lines 80-94: the figures of the venue the team plays at, each taken from
\* the venue field with || the aggregate field; then lines 96-111
calculateExpectedGoalsSteps(teamStats, opponentStats, isHome, leagueAverageArg) ==
    LET leagueAverage ==
            IF leagueAverageArg = Undefined THEN DefaultLeagueAverage
                                            ELSE leagueAverageArg[1]
        matchesPlayed ==
            IF isHome THEN OrElse(teamStats.homeMatchesPlayed, teamStats.matchesPlayed)
                      ELSE OrElse(teamStats.awayMatchesPlayed, teamStats.matchesPlayed)
        goalsScored ==
            IF isHome THEN OrElse(teamStats.homeGoalsScored, teamStats.goalsScored)
                      ELSE OrElse(teamStats.awayGoalsScored, teamStats.goalsScored)
        opponentGoalsConceded ==
            IF isHome
            THEN OrElse(opponentStats.awayGoalsConceded, opponentStats.goalsConceded)
            ELSE OrElse(opponentStats.homeGoalsConceded, opponentStats.goalsConceded)
        opponentMatchesPlayed ==
            IF isHome
            THEN OrElse(opponentStats.awayMatchesPlayed, opponentStats.matchesPlayed)
            ELSE OrElse(opponentStats.homeMatchesPlayed, opponentStats.matchesPlayed)
    IN  strengthModel(matchesPlayed, goalsScored, opponentGoalsConceded,
                      opponentMatchesPlayed, isHome, leagueAverage)

calculateExpectedGoals(teamStats, opponentStats, isHome, leagueAverageArg) ==
    calculateExpectedGoalsSteps(teamStats, opponentStats, isHome, leagueAverageArg).value

(***************************************************************************)
(* SpecXG: one calculateExpectedGoals call on drawn TeamStats              *)
(***************************************************************************)
MaxSeasonMatches == 10   \* most matches a team has played
MaxSeasonGoals == 12     \* most goals a team has scored, or conceded

\* a TeamStats without the venue fields
Aggregate(mp, gs, gc) ==
    [ goalsScored |-> gs, goalsConceded |-> gc, matchesPlayed |-> mp,
      homeGoalsScored |-> Undefined, homeGoalsConceded |-> Undefined,
      awayGoalsScored |-> Undefined, awayGoalsConceded |-> Undefined,
      homeMatchesPlayed |-> Undefined, awayMatchesPlayed |-> Undefined ]

\* a TeamStats with all six venue fields: hmp of the mp matches were at
\* home, with hgs of the goals scored and hgc of the goals conceded
ByVenue(mp, gs, gc, hmp, hgs, hgc) ==
    [ goalsScored |-> gs, goalsConceded |-> gc, matchesPlayed |-> mp,
      homeGoalsScored |-> Some(hgs), homeGoalsConceded |-> Some(hgc),
      awayGoalsScored |-> Some(gs - hgs), awayGoalsConceded |-> Some(gc - hgc),
      homeMatchesPlayed |-> Some(hmp), awayMatchesPlayed |-> Some(mp - hmp) ]

MatchCounts == {0, 2, 3, MaxSeasonMatches}

\* goals scored and conceded over mp matches
GoalPairs(mp) ==
    IF mp = 0 THEN { <<0, 0>> }
    ELSE { <<0, 4>>, <<MaxSeasonGoals, 4>>, <<4, MaxSeasonGoals>> }

\* the share of the goals that fell in the hmp home matches
HomeShares(mp, hmp, g) ==
    IF hmp = 0 THEN { <<0, 0>> }
    ELSE IF hmp = mp THEN { g }
    ELSE { <<0, 0>>, g }

TeamStatsInputs ==
    UNION { UNION { { Aggregate(mp, g[1], g[2]) } \cup
                    UNION { { ByVenue(mp, g[1], g[2], hmp, h[1], h[2]) :
                                h \in HomeShares(mp, hmp, g) } :
                            hmp \in {0, mp \div 2, mp} } :
                    g \in GoalPairs(mp) } :
            mp \in MatchCounts }

\* leagueAverage omitted, or a league of 3.1, 8 or 0.3 goals per match
LeagueAverageInputs ==
    { Undefined,
      Some([goalsPerMatch |-> (31 * Scale) \div 10, homeAdvantage |-> (12 * Scale) \div 10]),
      Some([goalsPerMatch |-> 8 * Scale, homeAdvantage |-> (13 * Scale) \div 10]),
      Some([goalsPerMatch |-> (3 * Scale) \div 10, homeAdvantage |-> (13 * Scale) \div 10]) }

InitXG ==
    /\ call \in [ fn : {"calculateExpectedGoals"}, teamStats : TeamStatsInputs,
                  opponentStats : TeamStatsInputs, isHome : BOOLEAN,
                  leagueAverage : LeagueAverageInputs,
                  returned : {Undefined}, divisors : {<< >>} ]
    /\ ratings = << >>
    /\ hist = << >>
    /\ table = << >>
    /\ procs = << >>
    /\ clock = 0

InvokeCalculateExpectedGoals ==
    /\ call.fn = "calculateExpectedGoals"
    /\ call.returned = Undefined
    /\ LET steps == calculateExpectedGoalsSteps(call.teamStats, call.opponentStats,
                                                call.isHome, call.leagueAverage)
       IN  call' = [call EXCEPT !.returned = Some(steps.value),
                                !.divisors = steps.divisors]
    /\ UNCHANGED <<ratings, hist, table, procs, clock>>

NextXG == InvokeCalculateExpectedGoals

SpecXG == InitXG /\ [][NextXG]_vars

ReturnedXG == call.fn = "calculateExpectedGoals" /\ call.returned # Undefined

\* the league average in force in the recorded call
LeagueAverageOf(c) ==
    IF c.leagueAverage = Undefined THEN DefaultLeagueAverage ELSE c.leagueAverage[1]

\* goalsPerMatch x (homeAdvantage if isHome else 1.0) / 2
LeagueFallback(c) ==
    RoundDiv(Mul(LeagueAverageOf(c).goalsPerMatch,
                 IF c.isHome THEN LeagueAverageOf(c).homeAdvantage ELSE Scale), 2)

\* C12 (as stated): calculateExpectedGoals returns a value in [0.2, 5.0] for
\* any team statistics, venue side and leagueAverage, the low-data path
\* included.
C12_LambdaInRange ==
    ReturnedXG => (2 * Scale) \div 10 <= Out /\ Out <= 5 * Scale

\* C13: when either side has played fewer than 3 matches (none at all
\* included), calculateExpectedGoals returns exactly
\* goalsPerMatch x (homeAdvantage if isHome else 1.0) / 2, whatever the goals
\* fields of the two sides hold.
C13_LowDataReturnsLeagueFallback ==
    ReturnedXG =>
        ( (call.teamStats.matchesPlayed < 3 \/ call.opponentStats.matchesPlayed < 3)
            => Out = LeagueFallback(call) )

\* a home side with goals on record meets a side that has not played, under
\* a league average other than the default
C13_Witness ==
    /\ ReturnedXG
    /\ call.isHome
    /\ call.leagueAverage # Undefined
    /\ call.teamStats.matchesPlayed >= 3
    /\ call.teamStats.goalsScored > 0
    /\ call.opponentStats.matchesPlayed = 0
    /\ Out = LeagueFallback(call)
    /\ Out # RoundDiv(LeagueAverageOf(call).goalsPerMatch, 2)

\* the figure the claim selects: the venue field when present (0 included),
\* else the aggregate field
Preferred(venueField, aggregateField) ==
    IF venueField # Undefined THEN venueField[1] ELSE aggregateField

\* lines 96-111 applied to the figures selected by Preferred
PreferredExpectedGoals(c) ==
    LET t == c.teamStats
        o == c.opponentStats
    IN  IF c.isHome
        THEN strengthModel(Preferred(t.homeMatchesPlayed, t.matchesPlayed),
                           Preferred(t.homeGoalsScored, t.goalsScored),
                           Preferred(o.awayGoalsConceded, o.goalsConceded),
                           Preferred(o.awayMatchesPlayed, o.matchesPlayed),
                           TRUE, LeagueAverageOf(c)).value
        ELSE strengthModel(Preferred(t.awayMatchesPlayed, t.matchesPlayed),
                           Preferred(t.awayGoalsScored, t.goalsScored),
                           Preferred(o.homeGoalsConceded, o.goalsConceded),
                           Preferred(o.homeMatchesPlayed, o.matchesPlayed),
                           FALSE, LeagueAverageOf(c)).value

\* C14 (as stated): calculateExpectedGoals works on the venue-specific field
\* whenever it is present, a present 0 included, and on the aggregate field
\* only when the venue field is absent, so the value returned is the one the
\* venue-preferred figures give.
C14_VenueFieldsPreferredWhenPresent ==
    ReturnedXG => Out = PreferredExpectedGoals(call)

\* C15: calculateExpectedGoals never divides by a zero match count: when the
\* strength ratios are evaluated both divisors are at least 3, the value
\* returned is finite, and a side without matches gets the league fallback.
C15_NoDivisionByZero ==
    ReturnedXG =>
        /\ \A i \in DOMAIN call.divisors : call.divisors[i] >= 3
        /\ IsFinite(Out)
        /\ (call.teamStats.matchesPlayed = 0 \/ call.opponentStats.matchesPlayed = 0)
             => (call.divisors = << >> /\ Out = LeagueFallback(call))

\* the ratios were evaluated with both divisors at the boundary 3
C15_Witness ==
    /\ ReturnedXG
    /\ call.divisors = <<3, 3>>
    /\ Out # LeagueFallback(call)

(***************************************************************************)
(* Math.exp(-x) for x >= 0 in units of 1/Scale: e^-x is the product of     *)
(* e^-n, e^-(d/10), e^-(c/100) and e^-r for the integer part n, the tenths *)
(* d, the hundredths c and the remainder r < 0.01 of x, with e^-r taken as *)
(* 1 - r.  The first table is in units of 1/100000, the other two in       *)
(* units of 1/Scale.                                                       *)
(***************************************************************************)
ExpNegUnits == << 100000, 36788, 13534, 4979, 1832, 674, 248, 91, 34, 12, 5, 2, 1 >>
ExpNegTenths == << 10000, 9048, 8187, 7408, 6703, 6065, 5488, 4966, 4493, 4066 >>
ExpNegHundredths == << 10000, 9900, 9802, 9704, 9608, 9512, 9418, 9324, 9231, 9139 >>

ExpNeg(x) ==
    LET n == x \div Scale
        d == (x \div (Scale \div 10)) % 10
        c == (x \div (Scale \div 100)) % 10
        r == x % (Scale \div 100)
    IN  IF n >= Len(ExpNegUnits) THEN 0
        ELSE LET byTenths == RoundDiv(ExpNegUnits[n + 1] * ExpNegTenths[d + 1], Scale)
                 byHundredths == RoundDiv(byTenths * ExpNegHundredths[c + 1], Scale)
             IN  RoundDiv(RoundDiv(byHundredths * (Scale - r), Scale), 10)

\* (Math.pow(lambda, k) * Math.exp(-lambda)) / factorial(k), built up factor
\* by factor: P(0) = e^-lambda and P(k) = P(k-1) * lambda / k
RECURSIVE poissonProbability(_, _)
poissonProbability(lambda, k) ==
    IF k = 0 THEN ExpNeg(lambda)
    ELSE RoundDiv(poissonProbability(lambda, k - 1) * lambda, k * Scale)

NoSums == [homeWin |-> 0, draw |-> 0, awayWin |-> 0]

AddSums(x, y) ==
    [ homeWin |-> x.homeWin + y.homeWin, draw |-> x.draw + y.draw,
      awayWin |-> x.awayWin + y.awayWin ]

\* the inner loop of lines 128-140: what the scores homeGoals : awayGoals,
\* ..., homeGoals : maxGoals add to the three sums.  The product of two
\* probabilities, and so the sums, are in units of 1/(100 * Scale).
RECURSIVE awayLoop(_, _, _, _, _)
awayLoop(homeExpectedGoals, awayExpectedGoals, maxGoals, homeGoals, awayGoals) ==
    IF awayGoals > maxGoals THEN NoSums
    ELSE LET prob == RoundDiv(poissonProbability(homeExpectedGoals, homeGoals)
                                 * poissonProbability(awayExpectedGoals, awayGoals),
                               Scale \div 100)
         IN  AddSums(IF homeGoals > awayGoals
                     THEN [NoSums EXCEPT !.homeWin = prob]
                     ELSE IF homeGoals = awayGoals
                          THEN [NoSums EXCEPT !.draw = prob]
                          ELSE [NoSums EXCEPT !.awayWin = prob],
                     awayLoop(homeExpectedGoals, awayExpectedGoals, maxGoals,
                              homeGoals, awayGoals + 1))

\* the outer loop of lines 127-141: what the rows homeGoals, ..., maxGoals
\* add to the three sums
RECURSIVE scoreLoop(_, _, _, _)
scoreLoop(homeExpectedGoals, awayExpectedGoals, maxGoals, homeGoals) ==
    IF homeGoals > maxGoals THEN NoSums
    ELSE AddSums(awayLoop(homeExpectedGoals, awayExpectedGoals, maxGoals,
                          homeGoals, 0),
                 scoreLoop(homeExpectedGoals, awayExpectedGoals, maxGoals,
                           homeGoals + 1))

\* variant: the three sums are returned as they are
calculateMatchProbabilities_notNormalised(homeExpectedGoals, awayExpectedGoals, maxGoalsArg) ==
    LET maxGoals == IF maxGoalsArg = Undefined THEN 10 ELSE maxGoalsArg[1]
    IN  scoreLoop(homeExpectedGoals, awayExpectedGoals, maxGoals, 0)

\* maxGoalsArg is Undefined (the default 10 applies) or Some(maxGoals)
calculateMatchProbabilities(homeExpectedGoals, awayExpectedGoals, maxGoalsArg) ==
    LET maxGoals == IF maxGoalsArg = Undefined THEN 10 ELSE maxGoalsArg[1]
        sums == scoreLoop(homeExpectedGoals, awayExpectedGoals, maxGoals, 0)
        total == sums.homeWin + sums.draw + sums.awayWin
    IN  [ homeWin |-> JDiv(sums.homeWin, total),
          draw    |-> JDiv(sums.draw, total),
          awayWin |-> JDiv(sums.awayWin, total) ]

\* variant: no minimum on the odds of a probability inside (0, 1)
probabilityToOdds_noFloor(probability) ==
    IF probability = NaN THEN NaN
    ELSE IF probability <= 0 \/ probability >= Scale THEN (101 * Scale) \div 100
    ELSE JDiv(Scale, probability)

probabilityToOdds(probability) ==
    IF probability = NaN THEN NaN
    ELSE IF probability <= 0 \/ probability >= Scale THEN (101 * Scale) \div 100
    ELSE Max((101 * Scale) \div 100, JDiv(Scale, probability))

\* the loop of lines 176-178: what k, ..., threshold add to underProb
RECURSIVE underLoop(_, _, _)
underLoop(totalExpectedGoals, threshold, k) ==
    IF k > threshold THEN 0
    ELSE poissonProbability(totalExpectedGoals, k)
             + underLoop(totalExpectedGoals, threshold, k + 1)

\* Math.max(0.01, Math.min(0.99, p))
ClampProbability(p) == Max(Scale \div 100, Min((99 * Scale) \div 100, p))

\* variant: the two probabilities are returned unclamped
calculateOverUnderProbabilities_noClamp(homeExpectedGoals, awayExpectedGoals, threshold) ==
    LET totalExpectedGoals == homeExpectedGoals + awayExpectedGoals
        underProb == underLoop(totalExpectedGoals, threshold, 0)
        overProb == Scale - underProb
    IN  [ over |-> overProb, under |-> underProb ]

\* variant: the over probability is kept at 0.05 or more
calculateOverUnderProbabilities_overFloor05(homeExpectedGoals, awayExpectedGoals, threshold) ==
    LET totalExpectedGoals == homeExpectedGoals + awayExpectedGoals
        underProb == underLoop(totalExpectedGoals, threshold, 0)
        overProb == Scale - underProb
    IN  [ over  |-> Max((5 * Scale) \div 100, Min((99 * Scale) \div 100, overProb)),
          under |-> ClampProbability(underProb) ]

\* the fourth parameter, maxGoals, is not read by the function
calculateOverUnderProbabilities(homeExpectedGoals, awayExpectedGoals, threshold) ==
    LET totalExpectedGoals == homeExpectedGoals + awayExpectedGoals
        underProb == underLoop(totalExpectedGoals, threshold, 0)
        overProb == Scale - underProb
    IN  [ over  |-> ClampProbability(overProb),
          under |-> ClampProbability(underProb) ]

calculateBTTSProbability(homeExpectedGoals, awayExpectedGoals) ==
    LET homeScoreProb == Scale - poissonProbability(homeExpectedGoals, 0)
        awayScoreProb == Scale - poissonProbability(awayExpectedGoals, 0)
        yesProb == Mul(homeScoreProb, awayScoreProb)
        noProb == Scale - yesProb
    IN  [ yes |-> ClampProbability(yesProb),
          no  |-> ClampProbability(noProb) ]

\* lines 221-267: the odds card of the two expected-goal figures
oddsCard(homeXG, awayXG) ==
    LET outcome == calculateMatchProbabilities(homeXG, awayXG, Undefined)
        overUnder ==
            [ over_0_5  |-> calculateOverUnderProbabilities(homeXG, awayXG, 0).over,
              over_1_5  |-> calculateOverUnderProbabilities(homeXG, awayXG, 1).over,
              over_2_5  |-> calculateOverUnderProbabilities(homeXG, awayXG, 2).over,
              over_3_5  |-> calculateOverUnderProbabilities(homeXG, awayXG, 3).over,
              over_4_5  |-> calculateOverUnderProbabilities(homeXG, awayXG, 4).over,
              over_5_5  |-> calculateOverUnderProbabilities(homeXG, awayXG, 5).over,
              under_0_5 |-> calculateOverUnderProbabilities(homeXG, awayXG, 0).under,
              under_1_5 |-> calculateOverUnderProbabilities(homeXG, awayXG, 1).under,
              under_2_5 |-> calculateOverUnderProbabilities(homeXG, awayXG, 2).under,
              under_3_5 |-> calculateOverUnderProbabilities(homeXG, awayXG, 3).under,
              under_4_5 |-> calculateOverUnderProbabilities(homeXG, awayXG, 4).under,
              under_5_5 |-> calculateOverUnderProbabilities(homeXG, awayXG, 5).under ]
        btts == calculateBTTSProbability(homeXG, awayXG)
    IN  [ match_winner |->
              [ home |-> probabilityToOdds(outcome.homeWin),
                draw |-> probabilityToOdds(outcome.draw),
                away |-> probabilityToOdds(outcome.awayWin) ],
          goals_over_under |->
              [ f \in DOMAIN overUnder |-> probabilityToOdds(overUnder[f]) ],
          both_teams_score |->
              [ yes |-> probabilityToOdds(btts.yes),
                no  |-> probabilityToOdds(btts.no) ] ]

\* variant: both expected-goal figures are computed for a home side
generateMatchOdds_bothAtHome(homeTeamStats, awayTeamStats, leagueAverage) ==
    oddsCard(calculateExpectedGoals(homeTeamStats, awayTeamStats, TRUE, leagueAverage),
             calculateExpectedGoals(awayTeamStats, homeTeamStats, TRUE, leagueAverage))

\* leagueAverage is Undefined or Some(record), and is handed on as it is
generateMatchOdds(homeTeamStats, awayTeamStats, leagueAverage) ==
    oddsCard(calculateExpectedGoals(homeTeamStats, awayTeamStats, TRUE, leagueAverage),
             calculateExpectedGoals(awayTeamStats, homeTeamStats, FALSE, leagueAverage))

(***************************************************************************)
(* SpecOdds: one call of an exported function of poisson-odds.ts on drawn  *)
(* arguments                                                               *)
(***************************************************************************)
LambdaSteps == 9      \* expected goals run from 0.6 to LambdaSteps * 0.6
MaxTruncation == 3    \* largest maxGoals passed to calculateMatchProbabilities
MaxThreshold == 5     \* largest threshold of an over/under line
ProbStep == 50        \* distance, in units of 1/Scale, between two input probabilities

\* 0.1, and every multiple of 0.6 up to LambdaSteps * 0.6
LambdaInputs ==
    { Scale \div 10 } \cup { k * ((6 * Scale) \div 10) : k \in 1..LambdaSteps }

\* maxGoals omitted (10 applies), or 0 .. MaxTruncation
TruncationInputs == { Undefined } \cup { Some(m) : m \in 0..MaxTruncation }

\* probabilities from below 0 to above 1, and the values next to 0, to
\* 1/1.01 and to 1
ProbabilityInputs ==
    { i * ProbStep : i \in -2 .. (Scale \div ProbStep + 2) }
    \cup { 1, 9900, 9901, 9902, Scale - 1 }

OddsStatsInputs ==
    { Aggregate(0, 0, 0),
      Aggregate(3, 0, 4),
      Aggregate(MaxSeasonMatches, MaxSeasonGoals, 4),
      Aggregate(MaxSeasonMatches, 4, MaxSeasonGoals),
      ByVenue(MaxSeasonMatches, MaxSeasonGoals, 4, 5, 0, 0),
      ByVenue(MaxSeasonMatches, 4, MaxSeasonGoals, 5, 4, 4) }

OddsCallInputs ==
    [ fn : {"calculateMatchProbabilities"}, homeExpectedGoals : LambdaInputs,
      awayExpectedGoals : LambdaInputs, maxGoals : TruncationInputs,
      returned : {Undefined} ]
    \cup [ fn : {"probabilityToOdds"}, probability : ProbabilityInputs,
           returned : {Undefined} ]
    \cup [ fn : {"calculateOverUnderProbabilities"}, homeExpectedGoals : LambdaInputs,
           awayExpectedGoals : LambdaInputs, threshold : -1..MaxThreshold,
           returned : {Undefined} ]
    \cup [ fn : {"calculateBTTSProbability"}, homeExpectedGoals : LambdaInputs,
           awayExpectedGoals : LambdaInputs, returned : {Undefined} ]
    \cup [ fn : {"generateMatchOdds"}, homeTeamStats : OddsStatsInputs,
           awayTeamStats : OddsStatsInputs, leagueAverage : LeagueAverageInputs,
           returned : {Undefined} ]

InitOdds ==
    /\ call \in OddsCallInputs
    /\ ratings = << >>
    /\ hist = << >>
    /\ table = << >>
    /\ procs = << >>
    /\ clock = 0

InvokeCalculateMatchProbabilities ==
    /\ call.fn = "calculateMatchProbabilities"
    /\ call.returned = Undefined
    /\ call' = [call EXCEPT !.returned =
                   Some(calculateMatchProbabilities(call.homeExpectedGoals,
                                                    call.awayExpectedGoals,
                                                    call.maxGoals))]
    /\ UNCHANGED <<ratings, hist, table, procs, clock>>

InvokeProbabilityToOdds ==
    /\ call.fn = "probabilityToOdds"
    /\ call.returned = Undefined
    /\ call' = [call EXCEPT !.returned = Some(probabilityToOdds(call.probability))]
    /\ UNCHANGED <<ratings, hist, table, procs, clock>>

InvokeCalculateOverUnderProbabilities ==
    /\ call.fn = "calculateOverUnderProbabilities"
    /\ call.returned = Undefined
    /\ call' = [call EXCEPT !.returned =
                   Some(calculateOverUnderProbabilities(call.homeExpectedGoals,
                                                        call.awayExpectedGoals,
                                                        call.threshold))]
    /\ UNCHANGED <<ratings, hist, table, procs, clock>>

InvokeCalculateBTTSProbability ==
    /\ call.fn = "calculateBTTSProbability"
    /\ call.returned = Undefined
    /\ call' = [call EXCEPT !.returned =
                   Some(calculateBTTSProbability(call.homeExpectedGoals,
                                                 call.awayExpectedGoals))]
    /\ UNCHANGED <<ratings, hist, table, procs, clock>>

InvokeGenerateMatchOdds ==
    /\ call.fn = "generateMatchOdds"
    /\ call.returned = Undefined
    /\ call' = [call EXCEPT !.returned =
                   Some(generateMatchOdds(call.homeTeamStats, call.awayTeamStats,
                                          call.leagueAverage))]
    /\ UNCHANGED <<ratings, hist, table, procs, clock>>

NextOdds ==
    \/ InvokeCalculateMatchProbabilities
    \/ InvokeProbabilityToOdds
    \/ InvokeCalculateOverUnderProbabilities
    \/ InvokeCalculateBTTSProbability
    \/ InvokeGenerateMatchOdds

SpecOdds == InitOdds /\ [][NextOdds]_vars

Returned(fn) == call.fn = fn /\ call.returned # Undefined

(***************************************************************************)
(* Claims about the Poisson odds functions (SpecOdds)                      *)
(***************************************************************************)
\* f[0] + ... + f[n]
RECURSIVE SumTo(_, _)
SumTo(f, n) == IF n < 0 THEN 0 ELSE f[n] + SumTo(f, n - 1)

\* Poisson(homeXG, h) * Poisson(awayXG, a), in units of 1/(100 * Scale)
ScoreProbability(homeXG, awayXG, h, a) ==
    RoundDiv(poissonProbability(homeXG, h) * poissonProbability(awayXG, a),
             Scale \div 100)

\* the sum of the score probabilities over the scores h : a, 0 <= h, a <= m,
\* with h - a of the sign given (1, 0 or -1)
BucketSum(homeXG, awayXG, m, sign) ==
    SumTo([h \in 0..m |->
             SumTo([a \in 0..m |->
                      IF (sign = 1 /\ h > a) \/ (sign = 0 /\ h = a) \/ (sign = -1 /\ h < a)
                      THEN ScoreProbability(homeXG, awayXG, h, a)
                      ELSE 0], m)], m)

TruncationOf(c) == IF c.maxGoals = Undefined THEN 10 ELSE c.maxGoals[1]

IsProbability(p) == 0 <= p /\ p <= Scale

\* C16: for expected goals > 0 and a truncation maxGoals >= 0,
\* calculateMatchProbabilities returns homeWin, draw and awayWin that are
\* each in [0, 1] and sum to 1 (to the last digit kept), each of them the
\* truncated sum of Poisson(homeXG, h) * Poisson(awayXG, a) over h > a,
\* h = a, h < a divided by the truncated total.
C16_NormalisedOutcomeProbabilities ==
    Returned("calculateMatchProbabilities") =>
        LET m == TruncationOf(call)
            home == BucketSum(call.homeExpectedGoals, call.awayExpectedGoals, m, 1)
            level == BucketSum(call.homeExpectedGoals, call.awayExpectedGoals, m, 0)
            away == BucketSum(call.homeExpectedGoals, call.awayExpectedGoals, m, -1)
            total == home + level + away
        IN  /\ IsProbability(Out.homeWin)
            /\ IsProbability(Out.draw)
            /\ IsProbability(Out.awayWin)
            /\ Abs(Out.homeWin + Out.draw + Out.awayWin - Scale) <= 1
            /\ total > 0
            /\ Out.homeWin = JDiv(home, total)
            /\ Out.draw = JDiv(level, total)
            /\ Out.awayWin = JDiv(away, total)

\* a truncation at one goal a side keeps less than half of the probability
\* mass, and the three values returned still sum to 1
C16_Witness ==
    /\ Returned("calculateMatchProbabilities")
    /\ call.maxGoals = Some(1)
    /\ 2 * ( BucketSum(call.homeExpectedGoals, call.awayExpectedGoals, 1, 1)
             + BucketSum(call.homeExpectedGoals, call.awayExpectedGoals, 1, 0)
             + BucketSum(call.homeExpectedGoals, call.awayExpectedGoals, 1, -1) )
           < 100 * Scale
    /\ Out.homeWin > 0 /\ Out.draw > 0 /\ Out.awayWin > 0
    /\ Abs(Out.homeWin + Out.draw + Out.awayWin - Scale) <= 1

MinimumOdds == (101 * Scale) \div 100

\* 1 / p for p in (0, 1)
Reciprocal(p) == JDiv(Scale, p)

\* C17: probabilityToOdds returns 1.01 for every probability <= 0 or >= 1
\* and max(1.01, 1/p) for p in (0, 1); so the result is never below 1.01,
\* is 1/p when p <= 1/1.01 and 1.01 above that, and does not increase with p
\* over (0, 1).
C17_OddsOfProbability ==
    Returned("probabilityToOdds") =>
        LET p == call.probability
        IN  /\ (p <= 0 \/ p >= Scale) => Out = MinimumOdds
            /\ (0 < p /\ p < Scale) => Out = Max(MinimumOdds, Reciprocal(p))
            /\ Out >= MinimumOdds
            /\ (0 < p /\ p * MinimumOdds <= Scale * Scale) => Out = Reciprocal(p)
            /\ (p < Scale /\ p * MinimumOdds > Scale * Scale) => Out = MinimumOdds
            /\ \A q \in ProbabilityInputs :
                  (0 < p /\ p < q /\ q < Scale) => probabilityToOdds(q) <= Out

\* a probability inside (0, 1) whose reciprocal is below 1.01 got 1.01
C17_Witness ==
    /\ Returned("probabilityToOdds")
    /\ 0 < call.probability /\ call.probability < Scale
    /\ Reciprocal(call.probability) < MinimumOdds
    /\ Out = MinimumOdds

\* 0.01 <= p <= 0.99
IsClamped(p) == Scale \div 100 <= p /\ p <= (99 * Scale) \div 100

\* 1/0.99 <= odds <= 1/0.01
IsOddsOfClamped(odds) ==
    Reciprocal((99 * Scale) \div 100) <= odds /\ odds <= Reciprocal(Scale \div 100)

\* C18: every probability returned by calculateOverUnderProbabilities and by
\* calculateBTTSProbability lies in [0.01, 0.99], so the over/under and BTTS
\* odds of generateMatchOdds are the odds of a probability in that range,
\* never of 0 or 1.
C18_MarketProbabilitiesClamped ==
    /\ Returned("calculateOverUnderProbabilities") =>
          IsClamped(Out.over) /\ IsClamped(Out.under)
    /\ Returned("calculateBTTSProbability") =>
          IsClamped(Out.yes) /\ IsClamped(Out.no)
    /\ Returned("generateMatchOdds") =>
          /\ \A f \in DOMAIN Out.goals_over_under : IsOddsOfClamped(Out.goals_over_under[f])
          /\ IsOddsOfClamped(Out.both_teams_score.yes)
          /\ IsOddsOfClamped(Out.both_teams_score.no)

\* P(total <= threshold) was below 0.01, so under came back as 0.01 and over
\* as 0.99
C18_Witness ==
    /\ Returned("calculateOverUnderProbabilities")
    /\ call.threshold >= 0
    /\ underLoop(call.homeExpectedGoals + call.awayExpectedGoals, call.threshold, 0)
           < Scale \div 100
    /\ Out.under = Scale \div 100
    /\ Out.over = (99 * Scale) \div 100

\* P(total goals <= X) for a total that is Poisson(lambda)
CumulativePoisson(lambda, X) == SumTo([k \in 0..X |-> poissonProbability(lambda, k)], X)

\* the over and the under odds of the card, line X.5 at position X + 1
OverOdds(card) ==
    << card.goals_over_under.over_0_5, card.goals_over_under.over_1_5,
       card.goals_over_under.over_2_5, card.goals_over_under.over_3_5,
       card.goals_over_under.over_4_5, card.goals_over_under.over_5_5 >>
UnderOdds(card) ==
    << card.goals_over_under.under_0_5, card.goals_over_under.under_1_5,
       card.goals_over_under.under_2_5, card.goals_over_under.under_3_5,
       card.goals_over_under.under_4_5, card.goals_over_under.under_5_5 >>

\* C19: generateMatchOdds composes the other functions and adds nothing: the
\* home lambda is calculateExpectedGoals(home, away, true), the away lambda
\* calculateExpectedGoals(away, home, false); the card holds 3 match-winner
\* odds, 12 over/under odds with line X.5 (X = 0..5) taken from
\* P(total goals <= X), and 2 BTTS odds; each of the 17 is probabilityToOdds
\* of its probability and is at least 1.01.
C19_OddsCardIsComposition ==
    Returned("generateMatchOdds") =>
        LET homeXG == calculateExpectedGoals(call.homeTeamStats, call.awayTeamStats,
                                             TRUE, call.leagueAverage)
            awayXG == calculateExpectedGoals(call.awayTeamStats, call.homeTeamStats,
                                             FALSE, call.leagueAverage)
            outcome == calculateMatchProbabilities(homeXG, awayXG, Undefined)
            btts == calculateBTTSProbability(homeXG, awayXG)
        IN  /\ Out.match_winner =
                  [ home |-> probabilityToOdds(outcome.homeWin),
                    draw |-> probabilityToOdds(outcome.draw),
                    away |-> probabilityToOdds(outcome.awayWin) ]
            /\ Cardinality(DOMAIN Out.goals_over_under) = 12
            /\ \A X \in 0..5 :
                  LET under == CumulativePoisson(homeXG + awayXG, X)
                  IN  /\ UnderOdds(Out)[X + 1] = probabilityToOdds(ClampProbability(under))
                      /\ OverOdds(Out)[X + 1] =
                             probabilityToOdds(ClampProbability(Scale - under))
            /\ Out.both_teams_score =
                  [ yes |-> probabilityToOdds(btts.yes),
                    no  |-> probabilityToOdds(btts.no) ]
            /\ \A f \in DOMAIN Out.match_winner : Out.match_winner[f] >= MinimumOdds
            /\ \A f \in DOMAIN Out.goals_over_under :
                  Out.goals_over_under[f] >= MinimumOdds
            /\ \A f \in DOMAIN Out.both_teams_score :
                  Out.both_teams_score[f] >= MinimumOdds

\* two different sides with enough matches, under a league average of the
\* caller's: the venue decides the two lambdas, and the home side is the
\* favourite
C19_Witness ==
    /\ Returned("generateMatchOdds")
    /\ call.leagueAverage # Undefined
    /\ call.homeTeamStats.matchesPlayed >= 3
    /\ call.awayTeamStats.matchesPlayed >= 3
    /\ call.homeTeamStats # call.awayTeamStats
    /\ calculateExpectedGoals(call.awayTeamStats, call.homeTeamStats, FALSE,
                              call.leagueAverage)
         # calculateExpectedGoals(call.awayTeamStats, call.homeTeamStats, TRUE,
                                  call.leagueAverage)
    /\ Out.match_winner.home < Out.match_winner.away
    /\ Out.goals_over_under.over_2_5 > Out.goals_over_under.over_1_5


\* the lambdas generateMatchOdds computes in the recorded call
CardHomeXG == calculateExpectedGoals(call.homeTeamStats, call.awayTeamStats, TRUE, call.leagueAverage)
CardAwayXG == calculateExpectedGoals(call.awayTeamStats, call.homeTeamStats, FALSE, call.leagueAverage)

\* C30: the clamped over and under of calculateOverUnderProbabilities still
\* sum to 1; from one line to the next under does not decrease and over does
\* not increase, so across the six lines of generateMatchOdds, 0.5 to 5.5,
\* the over odds never decrease and the under odds never increase.
C30_OverUnderComplementaryAndMonotone ==
    /\ Returned("calculateOverUnderProbabilities") =>
          /\ Out.over + Out.under = Scale
          /\ LET next == calculateOverUnderProbabilities(call.homeExpectedGoals,
                             call.awayExpectedGoals, call.threshold + 1)
             IN  Out.under <= next.under /\ Out.over >= next.over
    /\ Returned("generateMatchOdds") =>
          \A i \in 1..5 :
              /\ calculateOverUnderProbabilities(CardHomeXG, CardAwayXG, i - 1).under
                     <= calculateOverUnderProbabilities(CardHomeXG, CardAwayXG, i).under
              /\ calculateOverUnderProbabilities(CardHomeXG, CardAwayXG, i - 1).over
                     >= calculateOverUnderProbabilities(CardHomeXG, CardAwayXG, i).over
              /\ OverOdds(Out)[i] <= OverOdds(Out)[i + 1]
              /\ UnderOdds(Out)[i] >= UnderOdds(Out)[i + 1]

\* an under above 0.99 was clamped down, and the over with it up to 0.01
C30_Witness ==
    /\ Returned("calculateOverUnderProbabilities")
    /\ underLoop(call.homeExpectedGoals + call.awayExpectedGoals, call.threshold, 0)
           > (99 * Scale) \div 100
    /\ Out.under = (99 * Scale) \div 100
    /\ Out.over = Scale \div 100

(***************************************************************************)
(* SpecPure: two invocations of one exported function of the two engines   *)
(* on equal arguments.  The functions are synchronous, so an invocation is *)
(* one step; the two steps come in either order and the wall clock         *)
(* advances between and around them.                                       *)
(***************************************************************************)
MaxClock == 2    \* milliseconds the wall clock advances in a run

PureCallInputs ==
    [ fn : {"getOrInitializeRating"}, existingRating : ExistingRatings, teamId : Teams ]
    \cup [ fn : {"calculateExpectedGoals"}, teamStats : OddsStatsInputs,
           opponentStats : OddsStatsInputs, isHome : BOOLEAN, leagueAverage : {Undefined} ]
    \cup [ fn : {"calculateKFactor"}, matchesPlayed : 0..MaxPlayed ]
    \cup [ fn : {"getActualScores"}, result : Results ]

\* the value the function named in the invocation returns on its arguments
ApplyExported(c) ==
    CASE c.fn = "getOrInitializeRating" ->
             getOrInitializeRating(c.existingRating, c.teamId)
      [] c.fn = "calculateExpectedGoals" ->
             calculateExpectedGoals(c.teamStats, c.opponentStats, c.isHome, c.leagueAverage)
      [] c.fn = "calculateKFactor" -> calculateKFactor(c.matchesPlayed)
      [] c.fn = "getActualScores" -> getActualScores(c.result)

InitPure ==
    /\ \E c \in PureCallInputs :
          procs = [p \in Procs |-> [ pc |-> "called", invocation |-> c, returned |-> Undefined ]]
    /\ clock = 0
    /\ ratings = << >>
    /\ hist = << >>
    /\ call = NoCall
    /\ table = << >>

InvokeExported(p) ==
    /\ procs[p].pc = "called"
    /\ procs' = [procs EXCEPT ![p].returned = Some(ApplyExported(procs[p].invocation)),
                              ![p].pc = "returned"]
    /\ UNCHANGED <<ratings, hist, call, table, clock>>

\* a millisecond passes
Tick ==
    /\ clock < MaxClock
    /\ clock' = clock + 1
    /\ UNCHANGED <<ratings, hist, call, table, procs>>

NextPure ==
    \/ \E p \in Procs : InvokeExported(p)
    \/ Tick

SpecPure == InitPure /\ [][NextPure]_vars

BothReturned == DOMAIN procs = Procs /\ \A p \in Procs : procs[p].pc = "returned"

\* C23: every exported function of the two engines is pure and
\* deterministic: two invocations with equal arguments return equal results
\* in every field, whenever and in whichever order they run;
\* getOrInitializeRating included.
C23_EqualArgumentsEqualResults ==
    BothReturned => procs[1].returned = procs[2].returned


(***************************************************************************)
(* server/ingestion/strategies: cache-strategy.ts and the fallback         *)
(* strategy.  Timestamps are milliseconds counted from the start of the    *)
(* call (a row cached before the call has a negative one); Date.now() is   *)
(* the reading of `clock`, and the synchronous statements between two      *)
(* awaits read it at one instant.                                          *)
(***************************************************************************)
CACHE_CONFIG ==
    [ fixtures_live     |-> [ttl |-> 60,    staleWhileRevalidate |-> Some(30)],
      fixtures_upcoming |-> [ttl |-> 300,   staleWhileRevalidate |-> Some(60)],
      fixtures_finished |-> [ttl |-> 3600,  staleWhileRevalidate |-> Some(300)],
      standings         |-> [ttl |-> 3600,  staleWhileRevalidate |-> Some(600)],
      players           |-> [ttl |-> 21600, staleWhileRevalidate |-> Some(3600)],
      countries         |-> [ttl |-> 86400, staleWhileRevalidate |-> Undefined],
      leagues           |-> [ttl |-> 86400, staleWhileRevalidate |-> Undefined],
      teams             |-> [ttl |-> 43200, staleWhileRevalidate |-> Undefined],
      timezones         |-> [ttl |-> 86400, staleWhileRevalidate |-> Undefined] ]

\* status is Undefined or Some(string)
getCacheConfig(resource, status) ==
    IF resource = "fixtures"
    THEN IF status \in {Some("FT"), Some("AET"), Some("PEN")}
         THEN CACHE_CONFIG.fixtures_finished
         ELSE IF status \in {Some("LIVE"), Some("1H"), Some("HT"), Some("2H"), Some("ET"), Some("P")}
         THEN CACHE_CONFIG.fixtures_live
         ELSE CACHE_CONFIG.fixtures_upcoming
    ELSE IF resource \in DOMAIN CACHE_CONFIG
         THEN CACHE_CONFIG[resource]
         ELSE [ttl |-> 300, staleWhileRevalidate |-> Undefined]

\* Date.now() - cachedAt.getTime(), in milliseconds; the code's age is this
\* count divided by 1000
AgeMs(cachedAt) == clock - cachedAt

\* age > ttl
isStale(cachedAt, ttl) == AgeMs(cachedAt) > ttl * 1000

\* no staleWhileRevalidate (or 0) is falsy
shouldServeStale(cachedAt, config) ==
    IF config.staleWhileRevalidate = Undefined \/ config.staleWhileRevalidate = Some(0)
    THEN FALSE
    ELSE /\ AgeMs(cachedAt) > config.ttl * 1000
         /\ AgeMs(cachedAt) < (config.ttl + config.staleWhileRevalidate[1]) * 1000

\* updatedAt || createdAt of a row; Undefined when it has neither
CachedAt(row) == IF row.updatedAt # Undefined THEN row.updatedAt ELSE row.createdAt

\* a FallbackResult; age and error are Undefined when the field is absent
FallbackResult(data, source, stale, age, error) ==
    [ data |-> data, source |-> source, isStale |-> stale, age |-> age, error |-> error ]

\* the result built from a row of D1: lines 58-67, and 147-152 and 128-133
\* with their fixed isStale
RowAge(row) == IF CachedAt(row) # Undefined THEN Some(AgeMs(CachedAt(row)[1])) ELSE Undefined
RowIsStale(row, config) ==
    IF CachedAt(row) # Undefined THEN isStale(CachedAt(row)[1], config.ttl) ELSE TRUE
RowCanServeStale(row, config) ==
    IF CachedAt(row) # Undefined THEN shouldServeStale(CachedAt(row)[1], config) ELSE FALSE

\* the calls made so far to the three functions handed in, oldest first
CallsOf(fn) == SelectSeq(hist, LAMBDA e : e.fn = fn)

\* what the n-th upstreamFn call resolves to, when it resolves
UpstreamData == [ origin |-> "upstream", seq |-> Len(CallsOf("upstreamFn")) + 1,
                  updatedAt |-> Undefined, createdAt |-> Undefined ]

Logged(fn, outcome, value, background) ==
    [ fn |-> fn, outcome |-> outcome, value |-> value, background |-> background ]

\* an awaited call is fulfilled or fails; awaiting a promise that rejects and
\* calling a function that throws before it returns one end in the same
\* catch block
AwaitOutcomes == {"resolved", "rejected", "threw"}

\* upstreamFn may also be fulfilled with null, as fallbackFn may
UpstreamOutcomes == AwaitOutcomes \cup {"resolvedNull"}
Fulfilled == {"resolved", "resolvedNull"}


(***************************************************************************)
(* SpecFallback: one call of executeWithFallback or of                     *)
(* executeWithStaleWhileRevalidate.  `call` holds the arguments, the row   *)
(* D1 has for the resource and the await the call is suspended at; `hist`  *)
(* logs every call of upstreamFn, fallbackFn and revalidateFn with its     *)
(* outcome; `procs` holds the background revalidation once it is started.  *)
(* Each of the three functions may succeed or fail at every call.          *)
(***************************************************************************)
ResourceInputs ==
    { <<"fixtures", Some("LIVE")>>, <<"fixtures", Some("FT")>>, <<"fixtures", Undefined>>,
      <<"teams", Undefined>>, <<"odds", Undefined>> }

\* ages, at the start of the call, around the two limits of a config
AgeInputs(config) ==
    LET ttlMs == config.ttl * 1000
        swrMs == IF config.staleWhileRevalidate = Undefined
                 THEN 0 ELSE config.staleWhileRevalidate[1] * 1000
    IN  { 0, ttlMs - 1, ttlMs, ttlMs + swrMs - 2, ttlMs + swrMs }

\* rows of D1: with updatedAt and createdAt, with createdAt only, with neither
StoredRows(config) ==
    { [ origin |-> "d1", seq |-> 0, updatedAt |-> Some(-a), createdAt |-> Some(-a - 5) ] :
          a \in AgeInputs(config) }
    \cup { [ origin |-> "d1", seq |-> 0, updatedAt |-> Undefined, createdAt |-> Some(-a) ] :
          a \in AgeInputs(config) }
    \cup { [ origin |-> "d1", seq |-> 0, updatedAt |-> Undefined, createdAt |-> Undefined ] }

FallbackOutcomes == {"row", "null", "rejected", "threw"}

InitFallback ==
    /\ \E fn \in {"executeWithFallback", "executeWithStaleWhileRevalidate"} :
       \E rs \in ResourceInputs :
       \E row \in StoredRows(getCacheConfig(rs[1], rs[2])) :
          call = [ fn |-> fn, resource |-> rs[1], status |-> rs[2], stored |-> row,
                   pc |-> IF fn = "executeWithFallback" THEN "awaitUpstream" ELSE "awaitFallback",
                   checkedAt |-> Undefined, returned |-> Undefined ]
    /\ hist = << >>
    /\ procs = << >>
    /\ clock = 0
    /\ ratings = << >>
    /\ table = << >>

Config == getCacheConfig(call.resource, call.status)

\* the call returns: the promise of the async function is fulfilled
Return(result) == [call EXCEPT !.pc = "returned", !.returned = Some(result)]

\* the value an upstreamFn call with outcome o hands over
UpstreamValue(o) == IF o = "resolved" THEN Some(UpstreamData) ELSE Null

FromUpstream(o) == FallbackResult(UpstreamValue(o), "upstream", FALSE, Undefined, Undefined)

UpstreamLogged(o, background) == Logged("upstreamFn", o, UpstreamValue(o), background)

FallbackLogged(o) ==
    Logged("fallbackFn", o, IF o = "row" THEN Some(call.stored) ELSE Undefined, FALSE)

\* executeWithFallback, lines 32-43
executeWithFallback_UpstreamSettled ==
    /\ call.fn = "executeWithFallback"
    /\ call.pc = "awaitUpstream"
    /\ \E o \in UpstreamOutcomes :
          /\ hist' = Append(hist, UpstreamLogged(o, FALSE))
          /\ call' = IF o \in Fulfilled
                     THEN Return(FromUpstream(o))
                     ELSE [call EXCEPT !.pc = "awaitFallback"]
    /\ UNCHANGED <<ratings, table, procs, clock>>

\* executeWithFallback, lines 44-77
executeWithFallback_FallbackSettled ==
    /\ call.fn = "executeWithFallback"
    /\ call.pc = "awaitFallback"
    /\ \E o \in FallbackOutcomes :
          /\ hist' = Append(hist, FallbackLogged(o))
          /\ call' =
               CASE o = "row" ->
                      Return(FallbackResult(Some(call.stored), "d1_fallback",
                                            RowIsStale(call.stored, Config),
                                            RowAge(call.stored), Undefined))
                 [] o = "null" ->
                      Return(FallbackResult(Null, "d1_fallback", TRUE, Undefined,
                                            Some("No data available in D1")))
                 [] OTHER ->
                      Return(FallbackResult(Null, "d1_fallback", TRUE, Undefined,
                                            Some("Both upstream and D1 failed")))
    /\ UNCHANGED <<ratings, table, procs, clock>>

\* executeWithStaleWhileRevalidate, lines 95-134 and the entry into the
\* catch of line 154: fallbackFn settles and the code runs on to its next
\* await or return.  launch is what the call upstreamFn() of line 124 does:
\* it returns a promise, or it throws before returning one, which the try
\* block around it catches.
staleWhileRevalidate_FallbackSettled ==
    /\ call.fn = "executeWithStaleWhileRevalidate"
    /\ call.pc = "awaitFallback"
    /\ \E o \in FallbackOutcomes : \E launch \in {"promise", "threw"} :
          LET row   == call.stored
              fresh == o = "row" /\ ~RowIsStale(row, Config)
              serve == o = "row" /\ RowIsStale(row, Config) /\ RowCanServeStale(row, Config)
              seen  == [call EXCEPT !.checkedAt = Some(clock)]
          IN  /\ ~serve => launch = "promise"
              /\ hist' = IF serve /\ launch = "threw"
                         THEN hist \o << FallbackLogged(o), UpstreamLogged("threw", TRUE) >>
                         ELSE Append(hist, FallbackLogged(o))
              /\ procs' = IF serve /\ launch = "promise"
                          THEN << [pc |-> "upstreamPending"] >>
                          ELSE procs
              /\ call' =
                   CASE o \in {"rejected", "threw"} -> [call EXCEPT !.pc = "awaitLastResort"]
                     [] o = "null" -> [call EXCEPT !.pc = "awaitUpstream"]
                     [] fresh ->
                          [ Return(FallbackResult(Some(row), "cache", FALSE, Undefined, Undefined))
                              EXCEPT !.checkedAt = Some(clock) ]
                     [] serve /\ launch = "promise" ->
                          [ Return(FallbackResult(Some(row), "cache", TRUE, RowAge(row), Undefined))
                              EXCEPT !.checkedAt = Some(clock) ]
                     [] serve /\ launch = "threw" -> [seen EXCEPT !.pc = "awaitLastResort"]
                     [] OTHER -> [seen EXCEPT !.pc = "awaitUpstreamTooStale"]
    /\ UNCHANGED <<ratings, table, clock>>

\* lines 100-106: no cached data, the upstream call settles
staleWhileRevalidate_UpstreamSettled ==
    /\ call.fn = "executeWithStaleWhileRevalidate"
    /\ call.pc = "awaitUpstream"
    /\ \E o \in UpstreamOutcomes :
          /\ hist' = Append(hist, UpstreamLogged(o, FALSE))
          /\ call' = IF o \in Fulfilled
                     THEN Return(FromUpstream(o))
                     ELSE [call EXCEPT !.pc = "awaitLastResort"]
    /\ UNCHANGED <<ratings, table, procs, clock>>

\* lines 136-153: cached data too stale to serve, the upstream call settles
staleWhileRevalidate_TooStaleUpstreamSettled ==
    /\ call.pc = "awaitUpstreamTooStale"
    /\ \E o \in UpstreamOutcomes :
          /\ hist' = Append(hist, UpstreamLogged(o, FALSE))
          /\ call' = IF o \in Fulfilled
                     THEN Return(FromUpstream(o))
                     ELSE Return(FallbackResult(Some(call.stored), "d1_fallback", TRUE,
                                                RowAge(call.stored), Undefined))
    /\ UNCHANGED <<ratings, table, procs, clock>>

\* lines 154-172: the last-resort upstream call settles
staleWhileRevalidate_LastResortSettled ==
    /\ call.pc = "awaitLastResort"
    /\ \E o \in UpstreamOutcomes :
          /\ hist' = Append(hist, UpstreamLogged(o, FALSE))
          /\ call' = IF o \in Fulfilled
                     THEN Return(FromUpstream(o))
                     ELSE Return(FallbackResult(Null, "d1_fallback", TRUE, Undefined,
                                                Some("All strategies failed")))
    /\ UNCHANGED <<ratings, table, procs, clock>>

\* lines 124-126: the background promise settles; fulfilled, revalidateFn is
\* called with its value, and whatever fails is logged and goes no further
staleWhileRevalidate_BackgroundSettled ==
    /\ procs # << >>
    /\ procs[1].pc = "upstreamPending"
    /\ \E o \in Fulfilled \cup {"rejected"} : \E r \in AwaitOutcomes :
          /\ o = "rejected" => r = "resolved"
          /\ hist' = IF o \in Fulfilled
                     THEN hist \o << UpstreamLogged(o, TRUE),
                                     Logged("revalidateFn", r, UpstreamValue(o), TRUE) >>
                     ELSE Append(hist, UpstreamLogged(o, TRUE))
    /\ procs' = << [pc |-> "settled"] >>
    /\ UNCHANGED <<ratings, call, table, clock>>

NextFallback ==
    \/ executeWithFallback_UpstreamSettled
    \/ executeWithFallback_FallbackSettled
    \/ staleWhileRevalidate_FallbackSettled
    \/ staleWhileRevalidate_UpstreamSettled
    \/ staleWhileRevalidate_TooStaleUpstreamSettled
    \/ staleWhileRevalidate_LastResortSettled
    \/ staleWhileRevalidate_BackgroundSettled
    \/ Tick

SpecFallback == InitFallback /\ [][NextFallback]_vars

(***************************************************************************)
(* Claims about the fallback strategy (SpecFallback)                       *)
(***************************************************************************)
ReturnedFB == call.fn \in {"executeWithFallback", "executeWithStaleWhileRevalidate"} /\ call.returned # Undefined

\* a call of upstreamFn or fallbackFn has handed data to this invocation
DataObtained ==
    \E i \in DOMAIN hist :
        /\ hist[i].fn \in {"upstreamFn", "fallbackFn"}
        /\ ~hist[i].background
        /\ hist[i].value # Undefined

\* C24: executeWithFallback and executeWithStaleWhileRevalidate never
\* reject, whichever of upstreamFn, fallbackFn and revalidateFn succeed,
\* return null or throw: the call resolves to a FallbackResult whose data is
\* null only when neither upstream nor D1 gave any data, and whose source is
\* "upstream" only when an upstreamFn call of this invocation succeeded with
\* the data returned.
C24_AlwaysResolvesWithAvailableData ==
    ReturnedFB =>
        /\ call.pc = "returned"
        /\ Out.source \in {"upstream", "cache", "d1_fallback"}
        /\ Out.data = Null => ~DataObtained
        /\ Out.source = "upstream" =>
              \E i \in DOMAIN hist :
                  /\ hist[i].fn = "upstreamFn"
                  /\ hist[i].outcome \in Fulfilled
                  /\ ~hist[i].background
                  /\ hist[i].value = Out.data

\* the age of the cached row, in milliseconds, when the call examined it
CheckedAgeMs == call.checkedAt[1] - CachedAt(call.stored)[1]

BackgroundUpstreamCalls == SelectSeq(hist, LAMBDA e : e.fn = "upstreamFn" /\ e.background)

\* C25: in executeWithStaleWhileRevalidate cached data of an age within ttl
\* is returned with source "cache" and isStale false and no upstreamFn call
\* is made; cached data of an age strictly between ttl and ttl +
\* staleWhileRevalidate is returned at once with isStale true while exactly
\* one upstreamFn call runs in the background, revalidateFn is called once,
\* with the fresh data, only if that call succeeds, and a failure in the
\* background leaves the returned result as it is.
C25_FreshOrStaleWhileRevalidate ==
    ( /\ call.fn = "executeWithStaleWhileRevalidate"
      /\ call.checkedAt # Undefined
      /\ CachedAt(call.stored) # Undefined ) =>
        LET ttlMs == Config.ttl * 1000
            swr   == Config.staleWhileRevalidate
        IN  /\ CheckedAgeMs <= ttlMs =>
                  /\ call.returned = Some(FallbackResult(Some(call.stored), "cache", FALSE,
                                                         Undefined, Undefined))
                  /\ CallsOf("upstreamFn") = << >>
                  /\ procs = << >>
            /\ ( /\ swr # Undefined
                 /\ ttlMs < CheckedAgeMs
                 /\ CheckedAgeMs < ttlMs + swr[1] * 1000 ) =>
                  /\ call.returned = Some(FallbackResult(Some(call.stored), "cache", TRUE,
                                                         Some(CheckedAgeMs), Undefined))
                  /\ procs # << >>
                  /\ CallsOf("upstreamFn") = BackgroundUpstreamCalls
                  /\ Len(CallsOf("upstreamFn")) = IF procs[1].pc = "settled" THEN 1 ELSE 0
                  /\ Len(CallsOf("revalidateFn")) =
                        IF /\ procs[1].pc = "settled"
                           /\ CallsOf("upstreamFn")[1].outcome \in Fulfilled
                        THEN 1 ELSE 0
                  /\ \A i \in DOMAIN CallsOf("revalidateFn") :
                        CallsOf("revalidateFn")[i].value = CallsOf("upstreamFn")[1].value


(***************************************************************************)
(* server/ingestion/sources/football-data-org.ts: the request interceptor  *)
(* of one FootballDataOrgClient.  `table` is the client object             *)
(* (requestCount, lastRequestTime), `procs` the requests sent through it,  *)
(* `hist` the log of requests leaving the interceptor and of resets.  The  *)
(* interceptor runs without interruption up to its await and again from    *)
(* the timer to its end; a timer fires at its due time or later.           *)
(***************************************************************************)
MaxRequests == 3      \* requests sent through the client in a run
TimeStep == 2000      \* milliseconds by which the clock advances in one step
MaxTime == 14000      \* the clock stops advancing here

Requests == 1..MaxRequests

MinInterval == 6000   \* milliseconds between requests (line 32)

InitLimiter ==
    /\ table = [requestCount |-> 0, lastRequestTime |-> Null]
    /\ procs = [r \in Requests |-> [pc |-> "created", wake |-> 0]]
    /\ hist = << >>
    /\ clock = 0
    /\ ratings = << >>
    /\ call = NoCall

\* lines 37-42: the request is stamped, counted and let through
Pass(r) ==
    /\ table' = [requestCount |-> table.requestCount + 1, lastRequestTime |-> Some(clock)]
    /\ hist' = Append(hist, [event |-> "request", at |-> clock])
    /\ procs' = [procs EXCEPT ![r].pc = "sent"]

\* lines 28-35: the interceptor is entered; a request less than 6 seconds
\* after the last one stamped sets a timer for the remainder and waits
InterceptRequest(r) ==
    /\ procs[r].pc = "created"
    /\ IF /\ table.lastRequestTime # Null
          /\ clock - table.lastRequestTime[1] < MinInterval
       THEN /\ procs' = [procs EXCEPT
                            ![r].pc = "waiting",
                            ![r].wake = clock + (MinInterval - (clock - table.lastRequestTime[1]))]
            /\ UNCHANGED <<table, hist>>
       ELSE Pass(r)
    /\ UNCHANGED <<ratings, call, clock>>

\* the timer of line 33 fires and the interceptor runs to its end
TimerFires(r) ==
    /\ procs[r].pc = "waiting"
    /\ clock >= procs[r].wake
    /\ Pass(r)
    /\ UNCHANGED <<ratings, call, clock>>

resetRequestCount ==
    /\ \A i \in DOMAIN hist : hist[i].event # "reset"
    /\ table' = [table EXCEPT !.requestCount = 0]
    /\ hist' = Append(hist, [event |-> "reset", at |-> clock])
    /\ UNCHANGED <<ratings, call, procs, clock>>

Elapse ==
    /\ clock < MaxTime
    /\ clock' = clock + TimeStep
    /\ UNCHANGED <<ratings, hist, call, table, procs>>

NextLimiter ==
    \/ \E r \in Requests : InterceptRequest(r)
    \/ \E r \in Requests : TimerFires(r)
    \/ resetRequestCount
    \/ Elapse

SpecLimiter == InitLimiter /\ [][NextLimiter]_vars

(***************************************************************************)
(* Claims about the request interceptor (SpecLimiter)                      *)
(***************************************************************************)
\* the requests that left the interceptor after the last reset
RECURSIVE SinceReset(_)
SinceReset(n) ==
    IF n = 0 \/ hist[n].event = "reset" THEN 0 ELSE 1 + SinceReset(n - 1)

\* requestCount is the number of requests that passed since the last reset
RequestCountExact == table.requestCount = SinceReset(Len(hist))

\* any two requests left the interceptor at least 6 seconds apart
RequestsSpaced ==
    \A i \in DOMAIN hist : \A j \in DOMAIN hist :
        (i < j /\ hist[i].event = "request" /\ hist[j].event = "request")
            => hist[j].at - hist[i].at >= MinInterval

\* C26: any two requests sent through one FootballDataOrgClient leave the
\* request interceptor at least 6 seconds apart, also when several are
\* waiting in the interceptor at the same time, and requestCount is the
\* number of requests that passed the interceptor since the last reset.
C26_RequestsSixSecondsApart == RequestsSpaced /\ RequestCountExact


(***************************************************************************)
(* The scheduler: handleScheduledEvent and executeScheduledWorker.  `call` *)
(* is one handleScheduledEvent call with the minute and hour of its        *)
(* scheduledTime, `procs` the executeScheduledWorker calls it started, in  *)
(* the order of workersToExecute.  A sync worker resolves with a result    *)
(* that reports success or failure, rejects, or throws.                    *)
(***************************************************************************)
Minutes == 0..59
Hours == 0..23

WorkerOutcomes == {"succeeded", "failed", "rejected", "threw"}

\* variant: details is selected every 20 minutes
workersToExecute_detailsEvery20(minute, hour) ==
    (IF minute % 15 = 0 THEN <<"fixtures">> ELSE << >>)
    \o (IF minute % 20 = 0 THEN <<"details">> ELSE << >>)
    \o (IF minute = 0 THEN <<"standings">> ELSE << >>)
    \o (IF minute = 0 /\ hour % 6 = 0 THEN <<"players">> ELSE << >>)

\* lines 138-158
workersToExecute(minute, hour) ==
    (IF minute % 15 = 0 THEN <<"fixtures">> ELSE << >>)
    \o (IF minute % 30 = 0 THEN <<"details">> ELSE << >>)
    \o (IF minute = 0 THEN <<"standings">> ELSE << >>)
    \o (IF minute = 0 /\ hour % 6 = 0 THEN <<"players">> ELSE << >>)

\* what executeScheduledWorker returns once its worker has settled
executeScheduledWorkerResult(workerName, startTime, outcome) ==
    IF outcome \in {"succeeded", "failed"}
    THEN [ success |-> TRUE, worker |-> workerName, duration |-> clock - startTime,
           result |-> Some([success |-> outcome = "succeeded"]), error |-> Undefined ]
    ELSE [ success |-> FALSE, worker |-> workerName, duration |-> clock - startTime,
           result |-> Undefined, error |-> Some("error.message") ]

\* r.status === "fulfilled" ? r.value : { success: false, error: "Promise rejected" }
SettledValue(r) ==
    IF r.status = "fulfilled"
    THEN r.value[1]
    ELSE [ success |-> FALSE, worker |-> r.worker, duration |-> 0,
           result |-> Undefined, error |-> Some("Promise rejected") ]

InitScheduler ==
    /\ \E minute \in Minutes : \E hour \in Hours :
          call = [ fn |-> "handleScheduledEvent", minute |-> minute, hour |-> hour,
                   pc |-> "scheduled", workersToExecute |-> << >>, returned |-> Undefined ]
    /\ procs = << >>
    /\ clock = 0
    /\ ratings = << >>
    /\ hist = << >>
    /\ table = << >>

\* lines 135-164: the workers are selected and every selected worker is
\* started, one executeScheduledWorker call each, before anything is awaited
handleScheduledEvent ==
    /\ call.fn = "handleScheduledEvent"
    /\ call.pc = "scheduled"
    /\ LET selected == workersToExecute(call.minute, call.hour)
       IN  /\ call' = [call EXCEPT !.pc = "awaitAllSettled", !.workersToExecute = selected]
           /\ procs' = [ i \in 1..Len(selected) |->
                           [ worker |-> selected[i], status |-> "pending",
                             startTime |-> clock, value |-> Undefined ] ]
    /\ UNCHANGED <<ratings, hist, table, clock>>

\* lines 52-100: the worker of one executeScheduledWorker call settles; the
\* call is fulfilled with a report either way
executeScheduledWorker(i) ==
    /\ call.fn = "handleScheduledEvent"
    /\ i \in DOMAIN procs
    /\ procs[i].status = "pending"
    /\ \E outcome \in WorkerOutcomes :
          procs' = [procs EXCEPT
                       ![i].status = "fulfilled",
                       ![i].value = Some(executeScheduledWorkerResult(
                                             procs[i].worker, procs[i].startTime, outcome))]
    /\ UNCHANGED <<ratings, hist, call, table, clock>>

\* lines 162-170: every call has settled and the summary is returned
AllSettled ==
    /\ call.fn = "handleScheduledEvent"
    /\ call.pc = "awaitAllSettled"
    /\ \A i \in DOMAIN procs : procs[i].status # "pending"
    /\ call' = [call EXCEPT
                   !.pc = "returned",
                   !.returned = Some([ workersExecuted |-> call.workersToExecute,
                                       results |-> [i \in DOMAIN procs |-> SettledValue(procs[i])] ])]
    /\ UNCHANGED <<ratings, hist, table, procs, clock>>

NextScheduler ==
    \/ handleScheduledEvent
    \/ \E i \in 1..4 : executeScheduledWorker(i)
    \/ AllSettled
    \/ Tick

SpecScheduler == InitScheduler /\ [][NextScheduler]_vars

(***************************************************************************)
(* Claims about the scheduler (SpecScheduler)                              *)
(***************************************************************************)
\* the workers of the executeScheduledWorker calls started so far
Started == { procs[i].worker : i \in DOMAIN procs }

\* C27: handleScheduledEvent executes fixtures exactly when minute % 15 = 0,
\* details exactly when minute % 30 = 0, standings exactly when minute = 0
\* and players exactly when minute = 0 and hour % 6 = 0, so players implies
\* standings implies details implies fixtures; a worker that throws or fails
\* keeps none of the others selected for the tick from running and does not
\* make handleScheduledEvent reject.
C27_SelectionAndIsolation ==
    (call.fn = "handleScheduledEvent" /\ call.pc # "scheduled") =>
        /\ ("fixtures" \in Started) <=> (call.minute % 15 = 0)
        /\ ("details" \in Started) <=> (call.minute % 30 = 0)
        /\ ("standings" \in Started) <=> (call.minute = 0)
        /\ ("players" \in Started) <=> (call.minute = 0 /\ call.hour % 6 = 0)
        /\ "players" \in Started => "standings" \in Started
        /\ "standings" \in Started => "details" \in Started
        /\ "details" \in Started => "fixtures" \in Started
        /\ Len(procs) = Cardinality(Started)
        /\ call.pc \in {"awaitAllSettled", "returned"}
        /\ (\A i \in DOMAIN procs : procs[i].status # "pending") =>
               (call.pc = "returned" \/ ENABLED AllSettled)
        /\ call.pc = "returned" =>
              /\ Out.workersExecuted = [i \in DOMAIN procs |-> procs[i].worker]
              /\ DOMAIN Out.results = DOMAIN procs
              /\ \A i \in DOMAIN procs :
                    /\ procs[i].status = "fulfilled"
                    /\ Out.results[i] = procs[i].value[1]
                    /\ Out.results[i].worker = procs[i].worker

\* all four workers were selected, fixtures threw, the other three ran and
\* the call returned four reports
C27_Witness ==
    /\ call.fn = "handleScheduledEvent"
    /\ call.pc = "returned"
    /\ call.minute = 0 /\ call.hour = 12
    /\ Len(Out.results) = 4
    /\ ~Out.results[1].success
    /\ \A i \in 2..4 : Out.results[i].success /\ Out.results[i].result = Some([success |-> TRUE])

=============================================================================
